---- MODULE Spec2Model ----
(***************************************************************************)
(* A model of the retained-state core of unison: the block arena           *)
(* (unison/src/arena.rs) and the State built on it (unison/src/state.rs,   *)
(* unison/src/page.rs).  Memory is modelled byte by byte: a value of a     *)
(* type with layout [size, align] occupies `size` consecutive addresses.   *)
(***************************************************************************)
EXTENDS Integers, Sequences, FiniteSets, TLC

VARIABLES
    ARENA_IDX,  \* the process-wide static counter of Arena::_new
    heap,       \* the system allocator: the live allocations, [ptr, size]
    mem,        \* the bytes written so far: address -> byte
    pc,         \* per arena slot: "none", "loaded", "live", "dropped"
    arenas,     \* per arena slot: the Arena struct
    refs,       \* the handles the caller holds, in the order they were issued
    clears,     \* per arena: how many times clear() ran (history)
    last,       \* the operation that ran last and what it returned (history)
    state,      \* the State struct of a Page
    hist,       \* history: take_redraw_request ran and no watched change since; emits made
    TREE_IDX,   \* the process-wide static counter of ComponentTree::new
    trees,      \* per slot: the ComponentTree built there
    ring,       \* a RingBuffer and the values pushed into it and not popped (history)
    pipeline    \* the QuadPipeline of a surface

vars == <<ARENA_IDX, heap, mem, pc, arenas, refs, clears, last, state, hist,
          TREE_IDX, trees, ring, pipeline>>

----------------------------------------------------------------------------
(* Bounds of the model *)

\* arena instances a behaviour of SpecIds may construct
MaxArenas == 3
\* handles a behaviour may issue through Arena::alloc
MaxAllocs == 3
\* handles a behaviour of SpecIds may issue
MaxIdAllocs == 1
\* clear() calls per arena
MaxClears == 1
\* the largest n passed to with_blocks(n)
MaxSpare == 1
\* how many fitting addresses beyond the first the system allocator may return
MaxSkew == 1
\* handles a behaviour of SpecState may issue through State::alloc
MaxStateAllocs == 1
\* events a behaviour may emit
MaxEmits == 1
\* nodes (handles, tuples, bindings) of a LazyValue tree
MaxNodes == 5

(* Program constants *)

\* Arena<32>, the instantiation the arena's own tests use
TestBlockSize == 32
\* Arena's default BLOCK_SIZE, the one State uses
DefaultBlockSize == 1024
\* the capacity EventState::new gives its event buffer
EventBufferCapacity == 64

\* const TEXTURE_QUEUE_SIZE of quad_pipeline.rs
TEXTURE_QUEUE_SIZE == 12

\* the BLOCK_SIZE parameters arenas are built with: the one of the tests and
\* one that is not a multiple of the alignments of the values
BlockSizes == {17, TestBlockSize}

Slots == 1..MaxArenas

\* the thread that constructs and uses the arena of slot s: Arena and Ref
\* hold raw pointers, so they are neither Send nor Sync and stay with it.
\* The last arena belongs to a second thread, the others to the first one.
Thread(s) == IF s = MaxArenas THEN 2 ELSE 1

\* the slot the histories keep for the arena a State owns
StateSlot == MaxArenas + 1

----------------------------------------------------------------------------
(* Layouts of the value types stored (std::alloc::Layout::for_value) *)

U64 == [size |-> 8, align |-> 8]
U32 == [size |-> 4, align |-> 4]
\* [u64; 2]
U64x2 == [size |-> 16, align |-> 8]
\* [u64; 4]: as large as a block of Arena<32>, so it takes the oversized path
Big == [size |-> TestBlockSize, align |-> 8]

ArenaTypes == {U32, U64x2, Big}

\* Layout::array::<u8>(BLOCK_SIZE)
BlockLayout(block_size) == [size |-> block_size, align |-> 1]

----------------------------------------------------------------------------
(* Option<T> *)

None == [some |-> FALSE]
Some(x) == [some |-> TRUE, val |-> x]

----------------------------------------------------------------------------
(* The system allocator (std::alloc::alloc / dealloc).  It returns an       *)
(* address that is a multiple of the layout's alignment and whose range is  *)
(* free; which one is its choice.                                           *)

\* the lowest address handed out: never null
HeapBase == U64.align

HeapTop(h) ==
    IF h = {} THEN HeapBase
    ELSE CHOOSE t \in {x.ptr + x.size : x \in h} :
            \A x \in h : x.ptr + x.size <= t

IsFree(h, p, size) ==
    \A x \in h : p + size <= x.ptr \/ x.ptr + x.size <= p

Fits(h, layout) ==
    {p \in HeapBase..(HeapTop(h) + layout.align * (MaxSkew + 1)) :
        p % layout.align = 0 /\ IsFree(h, p, layout.size)}

\* the lowest address that fits
FirstFit(h, layout) ==
    CHOOSE p \in Fits(h, layout) : \A q \in Fits(h, layout) : p <= q

\* the addresses std::alloc::alloc(layout) may return, for an allocator that
\* passes over at most skew addresses that fit
Candidates(h, layout, skew) ==
    LET f == Fits(h, layout)
    IN {p \in f : Cardinality({q \in f : q < p}) <= skew}

----------------------------------------------------------------------------
(* Memory *)

Uninit == -1

Range(ptr, size) == ptr..(ptr + size - 1)

\* the bytes of value v of a type T: every byte carries v
Bytes(v, T) == [i \in 0..(T.size - 1) |-> v]

\* ptr::copy_nonoverlapping(&val, ptr, 1)
Write(m, ptr, T, bytes) ==
    [x \in (DOMAIN m) \cup Range(ptr, T.size) |->
        IF x \in Range(ptr, T.size) THEN bytes[x - ptr] ELSE m[x]]

\* *ptr
Read(m, ptr, T) ==
    [i \in 0..(T.size - 1) |->
        IF (ptr + i) \in DOMAIN m THEN m[ptr + i] ELSE Uninit]

\* the bytes of a deallocated range are gone
Forget(m, ranges) == [x \in (DOMAIN m) \ ranges |-> m[x]]

----------------------------------------------------------------------------
(* Arena *)

NoArena == [arena_id |-> -1, blocks |-> <<>>, cur_block |-> 0, offset |-> 0,
            block_size |-> 0]

\* Vec::insert(i, e), i counted from 0
InsertAt(s, i, e) == SubSeq(s, 1, i) \o <<e>> \o SubSeq(s, i + 1, Len(s))

\* Arena::_new, the struct literal: the counter is read here
new_arena(idx, block_size) ==
    [arena_id |-> idx, blocks |-> <<>>, cur_block |-> 0, offset |-> 0,
     block_size |-> block_size]

\* Arena::alloc_block
alloc_block(a, base) ==
    [a EXCEPT !.blocks =
        Append(@, [layout |-> BlockLayout(a.block_size), ptr |-> base])]

\* Arena::next_block
next_block(a, base) ==
    LET moved == [a EXCEPT !.cur_block = @ + 1, !.offset = 0]
    IN IF moved.cur_block >= Len(moved.blocks)
       THEN alloc_block(moved, base)
       ELSE moved

\* an align_offset that finds every address aligned
align_offset_none(addr, align) == 0

\* <*mut u8>::align_offset
align_offset(addr, align) == (align - (addr % align)) % align

\* self.blocks[self.cur_block].1
cur_block_ptr(a) == a.blocks[a.cur_block + 1].ptr

\* self.offset += align_offset + layout.size()
advance_offset(offset, pad, size) == offset + pad + size

\* the oversized path of Arena::alloc: a personal block, inserted second to last
alloc_oversized(a, T, base) ==
    [arena |-> [a EXCEPT
                    !.blocks = InsertAt(@, Len(@) - 1, [layout |-> T, ptr |-> base]),
                    !.cur_block = @ + 1],
     ptr |-> base,
     block_ptr |-> base]

\* the bump path of Arena::alloc
alloc_bump(a, T, base) ==
    LET pad0 == align_offset(cur_block_ptr(a) + a.offset, T.align)
        full == a.offset + pad0 + T.size > a.block_size
        a2 == IF full THEN next_block(a, base) ELSE a
        pad == IF full
               THEN align_offset(cur_block_ptr(a2) + a2.offset, T.align)
               ELSE pad0
    IN [arena |-> [a2 EXCEPT !.offset = advance_offset(@, pad, T.size)],
        ptr |-> cur_block_ptr(a2) + a2.offset + pad,
        block_ptr |-> cur_block_ptr(a2)]

IsOversized(a, T) == T.size >= a.block_size

\* Arena::alloc: the arena after the call, the address of the value and the
\* base of the block it was placed in
alloc(a, T, base) ==
    IF IsOversized(a, T) THEN alloc_oversized(a, T, base) ELSE alloc_bump(a, T, base)

\* whether Arena::alloc calls the system allocator, and with which layout
NeedsAlloc(a, T) ==
    \/ IsOversized(a, T)
    \/ /\ a.offset + align_offset(cur_block_ptr(a) + a.offset, T.align) + T.size
            > a.block_size
       /\ a.cur_block + 1 >= Len(a.blocks)

AllocLayout(a, T) == IF IsOversized(a, T) THEN T ELSE BlockLayout(a.block_size)

\* a get that skips the comparison of the identities
get_any(a, m, r) == Some(Read(m, r.ptr, r.T))

\* Arena::get and Arena::get_mut: the value behind the handle, or None
get(a, m, r) ==
    IF r.arena_id # a.arena_id THEN None ELSE Some(Read(m, r.ptr, r.T))

\* Arena::clear
clear(a) == [a EXCEPT !.cur_block = 0, !.offset = 0]

\* the ranges Drop for Arena deallocates
BlockAllocs(a) ==
    {[ptr |-> a.blocks[i].ptr, size |-> a.blocks[i].layout.size] :
        i \in 1..Len(a.blocks)}

----------------------------------------------------------------------------
(* Actions on arenas *)

NoOp == [op |-> "none", slot |-> 0]
NoState == [constructed |-> FALSE]
NoHist == [taken |-> FALSE, emits |-> 0]
NoTree == [pc |-> "none"]
NoRing == [constructed |-> FALSE]
NoPipeline == [constructed |-> FALSE]

Init ==
    /\ ARENA_IDX = 0
    /\ heap = {}
    /\ mem = << >>
    /\ pc = [s \in Slots |-> "none"]
    /\ arenas = [s \in Slots |-> NoArena]
    /\ refs = << >>
    /\ clears = [s \in Slots \cup {StateSlot} |-> 0]
    /\ last = NoOp
    /\ state = NoState
    /\ hist = NoHist
    /\ TREE_IDX = 0
    /\ trees = [s \in Slots |-> NoTree]
    /\ ring = NoRing
    /\ pipeline = NoPipeline

\* Arena::_new up to the struct literal: ARENA_IDX.load(Relaxed)
NewLoad(s, block_size) ==
    /\ pc[s] = "none"
    /\ pc' = [pc EXCEPT ![s] = "loaded"]
    /\ arenas' = [arenas EXCEPT ![s] = new_arena(ARENA_IDX, block_size)]
    /\ last' = [op |-> "load", slot |-> s]
    /\ UNCHANGED <<ARENA_IDX, heap, mem, refs, clears, state, hist, TREE_IDX, trees, ring, pipeline>>

\* the blocks with_blocks(n) allocates after _new: one by new(), then n more
RECURSIVE with_blocks(_, _, _)
with_blocks(a, h, bases) ==
    IF bases = << >> THEN [arena |-> a, heap |-> h]
    ELSE with_blocks(alloc_block(a, Head(bases)),
                     h \cup {[ptr |-> Head(bases), size |-> a.block_size]},
                     Tail(bases))

\* the base addresses the system allocator may return for k blocks in a row
RECURSIVE BaseSeqs(_, _, _, _)
BaseSeqs(h, block_size, k, skew) ==
    IF k = 0 THEN {<< >>}
    ELSE UNION {
        {<<b>> \o rest :
            rest \in BaseSeqs(h \cup {[ptr |-> b, size |-> block_size]},
                              block_size, k - 1, skew)} :
        b \in Candidates(h, BlockLayout(block_size), skew)}

\* the rest of Arena::with_blocks(n): ARENA_IDX.fetch_add(1, Relaxed), then
\* the blocks.  Arena::new() is with_blocks(0).
NewFinish(s, n, skew) ==
    /\ pc[s] = "loaded"
    /\ \E bases \in BaseSeqs(heap, arenas[s].block_size, n + 1, skew) :
        LET r == with_blocks(arenas[s], heap, bases)
        IN /\ arenas' = [arenas EXCEPT ![s] = r.arena]
           /\ heap' = r.heap
    /\ ARENA_IDX' = ARENA_IDX + 1
    /\ pc' = [pc EXCEPT ![s] = "live"]
    /\ last' = [op |-> "new", slot |-> s]
    /\ UNCHANGED <<mem, refs, clears, state, hist, TREE_IDX, trees, ring, pipeline>>

\* Arena::alloc(val) with val: T
Alloc(s, T, v) ==
    /\ pc[s] = "live"
    /\ LET a == arenas[s]
       IN \E base \in (IF NeedsAlloc(a, T)
                       THEN Candidates(heap, AllocLayout(a, T), MaxSkew)
                       ELSE {0}) :
            LET r == alloc(a, T, base)
                h == [arena_id |-> a.arena_id, ptr |-> r.ptr, T |-> T]
            IN /\ arenas' = [arenas EXCEPT ![s] = r.arena]
               /\ heap' = IF NeedsAlloc(a, T)
                          THEN heap \cup {[ptr |-> base, size |-> AllocLayout(a, T).size]}
                          ELSE heap
               /\ mem' = Write(mem, r.ptr, T, Bytes(v, T))
               /\ refs' = Append(refs, [ref |-> h, val |-> v, slot |-> s,
                                        epoch |-> clears[s],
                                        rel |-> r.ptr - r.block_ptr,
                                        cursor |-> <<r.arena.cur_block, r.arena.offset>>])
               /\ last' = [op |-> "alloc", slot |-> s, T |-> T,
                           grew |-> NeedsAlloc(a, T),
                           before |-> [block |-> cur_block_ptr(a), offset |-> a.offset]]
    /\ UNCHANGED <<ARENA_IDX, pc, clears, state, hist, TREE_IDX, trees, ring, pipeline>>

\* Arena::clear
Clear(s) ==
    /\ pc[s] = "live"
    /\ arenas' = [arenas EXCEPT ![s] = clear(@)]
    /\ clears' = [clears EXCEPT ![s] = @ + 1]
    /\ last' = [op |-> "clear", slot |-> s]
    /\ UNCHANGED <<ARENA_IDX, heap, mem, pc, refs, state, hist, TREE_IDX, trees, ring, pipeline>>

\* Drop for Arena
Drop(s) ==
    /\ pc[s] = "live"
    /\ heap' = heap \ BlockAllocs(arenas[s])
    /\ mem' = Forget(mem, UNION {Range(b.ptr, b.size) : b \in BlockAllocs(arenas[s])})
    /\ pc' = [pc EXCEPT ![s] = "dropped"]
    /\ last' = [op |-> "drop", slot |-> s]
    /\ UNCHANGED <<ARENA_IDX, arenas, refs, clears, state, hist, TREE_IDX, trees, ring, pipeline>>

\* one arena, used by one caller
Next ==
    \/ \E block_size \in BlockSizes : NewLoad(1, block_size)
    \/ \E n \in 0..MaxSpare : NewFinish(1, n, MaxSkew)
    \/ \E T \in ArenaTypes :
         /\ Len(refs) < MaxAllocs
         /\ Alloc(1, T, Len(refs) + 1)
    \/ clears[1] < MaxClears /\ Clear(1)

Spec == Init /\ [][Next]_vars

\* thread t is inside Arena::_new
InConstructor(t) == \E s \in Slots : Thread(s) = t /\ pc[s] = "loaded"

\* several arenas on two threads: a thread makes one call at a time and
\* constructs its arenas in the order of their slots; the two atomic
\* operations of Arena::_new interleave with the calls of the other thread.
\* The system allocator returns the first address that fits.
NextIds ==
    \/ \E s \in Slots :
         /\ ~InConstructor(Thread(s))
         /\ \A t \in 1..(s - 1) : Thread(t) = Thread(s) => pc[t] # "none"
         /\ NewLoad(s, TestBlockSize)
    \/ \E s \in Slots : NewFinish(s, 0, 0)
    \/ \E s \in Slots :
         /\ ~InConstructor(Thread(s))
         /\ Len(refs) < MaxIdAllocs
         /\ Alloc(s, U32, Len(refs) + 1)
    \/ \E s \in Slots : ~InConstructor(Thread(s)) /\ Drop(s)

SpecIds == Init /\ [][NextIds]_vars

----------------------------------------------------------------------------
(* RingBuffer (unison/src/misc.rs) and EventState (unison/src/events.rs) *)

\* RingBuffer::new(capacity)
RingBuffer_new(capacity) ==
    [buffer |-> [i \in 1..capacity |-> Uninit], head |-> 0, tail |-> 0]

\* RingBuffer::push
push(rb, val) ==
    LET next == IF rb.head + 1 >= Len(rb.buffer) THEN 0 ELSE rb.head + 1
    IN IF next = rb.tail
       THEN [buffer |-> InsertAt(rb.buffer, rb.head, val),
             head |-> next, tail |-> rb.tail + 1]
       ELSE [buffer |-> [rb.buffer EXCEPT ![rb.head + 1] = val],
             head |-> next, tail |-> rb.tail]

\* EventState::new
EventState_new ==
    [event_names |-> << >>, event_types |-> << >>,
     event_buffer |-> RingBuffer_new(EventBufferCapacity)]

\* EventState::emit: Event::new(ty, val) is pushed
emit(es, ty, val) == [es EXCEPT !.event_buffer = push(@, <<ty, val>>)]

----------------------------------------------------------------------------
(* State (unison/src/state.rs) *)

\* (u32, u32) and (i32, i32)
Pair32 == [size |-> 8, align |-> 4]
Bool == [size |-> 1, align |-> 1]

\* the types of the values a caller allocates in a State
StateTypes == {U32}

\* the values stored: State compares values for equality only, so two
\* distinguishable ones of every type cover its cases (for bool: false, true)
Values == {0, 1}

\* what Arena::alloc returned, as the caller and the histories keep it
Issued(a, r, T, v, s, e) ==
    [ref |-> [arena_id |-> a.arena_id, ptr |-> r.ptr, T |-> T], val |-> v,
     slot |-> s, epoch |-> e, rel |-> r.ptr - r.block_ptr,
     cursor |-> <<r.arena.cur_block, r.arena.offset>>]

\* a run of Arena::alloc calls that fit the blocks there are
RECURSIVE alloc_all(_, _, _, _)
alloc_all(a, m, items, s) ==
    IF items = << >> THEN [arena |-> a, mem |-> m, issued |-> << >>]
    ELSE LET T == Head(items).T
             v == Head(items).val
             r == alloc(a, T, 0)
             rest == alloc_all(r.arena, Write(m, r.ptr, T, Bytes(v, T)), Tail(items), s)
         IN [arena |-> rest.arena, mem |-> rest.mem,
             issued |-> <<Issued(a, r, T, v, s, 0)>> \o rest.issued]

\* the values State::new allocates, in the order of its struct literal:
\* window_size, window_pos, window_focused, window_maximized, window_minimized
WindowValues ==
    <<[T |-> Pair32, val |-> 0], [T |-> Pair32, val |-> 0], [T |-> Bool, val |-> 1],
      [T |-> Bool, val |-> 0], [T |-> Bool, val |-> 0]>>

\* State::new, given the arena Arena::new() returned and what its allocs gave
State_new(arena, issued) ==
    [constructed |-> TRUE,
     arena |-> arena,
     event_state |-> EventState_new,
     window_size |-> issued[1].ref,
     window_pos |-> issued[2].ref,
     window_focused |-> issued[3].ref,
     window_maximized |-> issued[4].ref,
     window_minimized |-> issued[5].ref,
     redraw_refs |-> {},
     request_redraw |-> FALSE]

\* the key of a handle in redraw_refs
WatchKey(r) == <<r.arena_id, r.ptr>>

\* State::emit_ref_changed that raises the flag for any handle
emit_ref_changed_unconditional(st, r) == [st EXCEPT !.request_redraw = TRUE]

\* State::emit_ref_changed
emit_ref_changed(st, r) ==
    IF WatchKey(r) \in st.redraw_refs
    THEN [st EXCEPT !.request_redraw = TRUE]
    ELSE st

\* State::redraw_on_change
redraw_on_change(st, r) == [st EXCEPT !.redraw_refs = @ \cup {WatchKey(r)}]

\* State::set that notifies without comparing
State_set_always_notifies(st, m, r, val) ==
    IF ~get(st.arena, m, r).some
    THEN [state |-> st, mem |-> m, result |-> None]
    ELSE [state |-> emit_ref_changed(st, r),
          mem |-> Write(m, r.ptr, r.T, val),
          result |-> Some(<< >>)]

\* State::set
State_set(st, m, r, val) ==
    IF ~get(st.arena, m, r).some
    THEN [state |-> st, mem |-> m, result |-> None]
    ELSE LET old == get(st.arena, m, r).val
         IN [state |-> IF old # val THEN emit_ref_changed(st, r) ELSE st,
             mem |-> Write(m, r.ptr, r.T, val),
             result |-> Some(<< >>)]

\* a closure FnOnce(&mut T) that maps every byte of the value through f
ApplyOp(f, bytes) == [i \in DOMAIN bytes |-> f[bytes[i]]]

\* State::mutate_ref that notifies without comparing
State_mutate_ref_always_notifies(st, m, r, f) ==
    IF ~get(st.arena, m, r).some
    THEN [state |-> st, mem |-> m, result |-> None, ran |-> FALSE]
    ELSE [state |-> emit_ref_changed(st, r),
          mem |-> Write(m, r.ptr, r.T, ApplyOp(f, get(st.arena, m, r).val)),
          result |-> Some(<< >>),
          ran |-> TRUE]

\* State::mutate_ref that runs the closure on whatever the handle points to
State_mutate_ref_unchecked(st, m, r, f) ==
    LET old == Read(m, r.ptr, r.T)
        m2 == Write(m, r.ptr, r.T, ApplyOp(f, old))
    IN [state |-> IF old # Read(m2, r.ptr, r.T) THEN emit_ref_changed(st, r) ELSE st,
        mem |-> m2,
        result |-> get(st.arena, m, r),
        ran |-> TRUE]

\* State::mutate_ref; ran: whether op was called
State_mutate_ref(st, m, r, f) ==
    IF ~get(st.arena, m, r).some
    THEN [state |-> st, mem |-> m, result |-> None, ran |-> FALSE]
    ELSE LET old == get(st.arena, m, r).val
             m2 == Write(m, r.ptr, r.T, ApplyOp(f, old))
             new == get(st.arena, m2, r).val
         IN [state |-> IF old # new THEN emit_ref_changed(st, r) ELSE st,
             mem |-> m2,
             result |-> Some(<< >>),
             ran |-> TRUE]

\* State::clear that also withdraws the redraw request
State_clear_resets_flag(st) ==
    [st EXCEPT !.arena = clear(@), !.request_redraw = FALSE]

\* State::clear
State_clear(st) == [st EXCEPT !.arena = clear(@)]

\* take_redraw_request that leaves the flag as it is
take_redraw_request_keeps_flag(st) ==
    [state |-> st, result |-> st.request_redraw]

\* DynPage::take_redraw_request for Page
take_redraw_request(st) ==
    [state |-> [st EXCEPT !.request_redraw = FALSE], result |-> st.request_redraw]

\* an eval of a handle that yields the zero value whatever the handle is
eval_ref_zero(st, m, r) == Some(Bytes(0, r.T))

\* an eval of a handle that keeps answering the value it found first, the
\* `true` State::new stored
eval_ref_memoized(st, m, r) ==
    IF get(st.arena, m, r).some THEN Some(Bytes(1, r.T)) ELSE None

\* LazyValue::eval for arena::Ref
eval_ref(st, m, r) == get(st.arena, m, r)

----------------------------------------------------------------------------
(* Actions on a State *)

\* State::new(); the system allocator places the block of its arena at the
\* first address that fits
InitState ==
    \E b \in {FirstFit({}, BlockLayout(DefaultBlockSize))} :
        LET own == alloc_all(alloc_block(new_arena(0, DefaultBlockSize), b),
                             << >>, WindowValues, StateSlot)
        IN /\ ARENA_IDX = 1
           /\ heap = {[ptr |-> b, size |-> DefaultBlockSize]}
           /\ mem = own.mem
           /\ pc = [s \in Slots |-> "none"]
           /\ arenas = [s \in Slots |-> NoArena]
           /\ refs = own.issued
           /\ clears = [s \in Slots \cup {StateSlot} |-> 0]
           /\ last = NoOp
           /\ state = State_new(own.arena, own.issued)
           /\ hist = NoHist
           /\ TREE_IDX = 0
           /\ trees = [s \in Slots |-> NoTree]
           /\ ring = NoRing
           /\ pipeline = NoPipeline

\* the handles the caller passes to the State: window_focused and those
\* State::alloc returned
Handles ==
    {refs[k].ref : k \in 1..Len(refs)}
        \ {state.window_size, state.window_pos, state.window_maximized,
           state.window_minimized}

\* the closures passed to mutate_ref: one that leaves the value as it is and
\* one that changes it
Ops == {[x \in Values |-> x], [x \in Values |-> IF x = 0 THEN 1 ELSE 0]}

Watched(r) == WatchKey(r) \in state.redraw_refs

\* State::alloc(val) with val: T; the caller keeps the handle, not the value,
\* which set and mutate_ref replace
StateAlloc(T, v) ==
    LET a == state.arena
    IN /\ ~NeedsAlloc(a, T)
       /\ LET r == alloc(a, T, 0)
          IN /\ state' = [state EXCEPT !.arena = r.arena]
             /\ mem' = Write(mem, r.ptr, T, Bytes(v, T))
             /\ refs' = Append(refs, Issued(a, r, T, None, StateSlot, clears[StateSlot]))
       /\ last' = [op |-> "alloc", slot |-> StateSlot, T |-> T,
                   flag_before |-> state.request_redraw]
       /\ UNCHANGED <<ARENA_IDX, heap, pc, arenas, clears, hist, TREE_IDX, trees, ring, pipeline>>

\* State::set(r, val)
Set(r, v) ==
    LET res == State_set(state, mem, r, Bytes(v, r.T))
        old == get(state.arena, mem, r)
    IN /\ state' = res.state
       /\ mem' = res.mem
       /\ last' = [op |-> "set", ref |-> r, new |-> Bytes(v, r.T),
                   changed |-> old # Some(Bytes(v, r.T)),
                   watched |-> Watched(r), flag_before |-> state.request_redraw,
                   result |-> res.result]
       /\ hist' = [hist EXCEPT !.taken =
                        @ /\ ~(old.some /\ Watched(r) /\ old # Some(Bytes(v, r.T)))]
       /\ UNCHANGED <<ARENA_IDX, heap, pc, arenas, refs, clears, TREE_IDX, trees, ring, pipeline>>

\* State::mutate_ref(r, op)
MutateRef(r, f) ==
    LET res == State_mutate_ref(state, mem, r, f)
        old == get(state.arena, mem, r)
        new == IF old.some THEN ApplyOp(f, old.val) ELSE << >>
    IN /\ state' = res.state
       /\ mem' = res.mem
       /\ last' = [op |-> "mutate_ref", ref |-> r, new |-> new,
                   changed |-> old # Some(new),
                   watched |-> Watched(r), flag_before |-> state.request_redraw,
                   result |-> res.result, ran |-> res.ran]
       /\ hist' = [hist EXCEPT !.taken =
                        @ /\ ~(old.some /\ Watched(r) /\ old # Some(new))]
       /\ UNCHANGED <<ARENA_IDX, heap, pc, arenas, refs, clears, TREE_IDX, trees, ring, pipeline>>

\* State::emit_ref_changed(r), called by the user of the State
EmitRefChanged(r) ==
    /\ state' = emit_ref_changed(state, r)
    /\ last' = [op |-> "emit_ref_changed", watched |-> Watched(r),
                flag_before |-> state.request_redraw]
    /\ hist' = [hist EXCEPT !.taken = @ /\ ~Watched(r)]
    /\ UNCHANGED <<ARENA_IDX, heap, mem, pc, arenas, refs, clears, TREE_IDX, trees, ring, pipeline>>

\* State::redraw_on_change(r)
RedrawOnChange(r) ==
    /\ state' = redraw_on_change(state, r)
    /\ last' = [op |-> "redraw_on_change", flag_before |-> state.request_redraw]
    /\ UNCHANGED <<ARENA_IDX, heap, mem, pc, arenas, refs, clears, hist, TREE_IDX, trees, ring, pipeline>>

\* State::clear
StateClear ==
    /\ state' = State_clear(state)
    /\ clears' = [clears EXCEPT ![StateSlot] = @ + 1]
    /\ last' = [op |-> "clear", slot |-> StateSlot,
                flag_before |-> state.request_redraw]
    /\ UNCHANGED <<ARENA_IDX, heap, mem, pc, arenas, refs, hist, TREE_IDX, trees, ring, pipeline>>

\* State::emit(ty, val)
Emit(ty, val) ==
    /\ state' = [state EXCEPT !.event_state = emit(@, ty, val)]
    /\ last' = [op |-> "emit", flag_before |-> state.request_redraw]
    /\ hist' = [hist EXCEPT !.emits = @ + 1]
    /\ UNCHANGED <<ARENA_IDX, heap, mem, pc, arenas, refs, clears, TREE_IDX, trees, ring, pipeline>>

\* r.eval(&state)
Eval(r) ==
    /\ last' = [op |-> "eval", result |-> eval_ref(state, mem, r),
                flag_before |-> state.request_redraw]
    /\ UNCHANGED <<ARENA_IDX, heap, mem, pc, arenas, refs, clears, state, hist, TREE_IDX, trees, ring, pipeline>>

\* Page::draw: the tree is drawn against &state; the layout of the root reads
\* window_focused through its binding
Draw ==
    /\ last' = [op |-> "draw", result |-> eval_ref(state, mem, state.window_focused),
                flag_before |-> state.request_redraw]
    /\ UNCHANGED <<ARENA_IDX, heap, mem, pc, arenas, refs, clears, state, hist, TREE_IDX, trees, ring, pipeline>>

\* DynPage::take_redraw_request
TakeRedrawRequest ==
    LET res == take_redraw_request(state)
    IN /\ state' = res.state
       /\ last' = [op |-> "take", result |-> res.result,
                   flag_before |-> state.request_redraw,
                   second |-> hist.taken]
       /\ hist' = [hist EXCEPT !.taken = TRUE]
       /\ UNCHANGED <<ARENA_IDX, heap, mem, pc, arenas, refs, clears, TREE_IDX, trees, ring, pipeline>>

NextState ==
    \/ \E T \in StateTypes : \E v \in Values :
         /\ Len(refs) < Len(WindowValues) + MaxStateAllocs
         /\ StateAlloc(T, v)
    \/ \E r \in Handles : \E v \in Values : Set(r, v)
    \/ \E r \in Handles : \E f \in Ops : MutateRef(r, f)
    \/ \E r \in Handles : EmitRefChanged(r)
    \/ \E r \in Handles : RedrawOnChange(r)
    \/ clears[StateSlot] < MaxClears /\ StateClear
    \/ hist.emits < MaxEmits /\ Emit(0, 0)
    \/ \E r \in Handles : Eval(r)
    \/ Draw
    \/ TakeRedrawRequest

SpecState == InitState /\ [][NextState]_vars

----------------------------------------------------------------------------
(* A State and a handle of another arena *)

\* the State and the arena that issued the foreign handle, both of the one
\* thread: either the State is built first and the arena lives next to it, or
\* the arena was built, used and dropped before State::new(), which then got
\* the block at the same address
ForeignSetups ==
    LET b == FirstFit({}, BlockLayout(DefaultBlockSize))
        blk == [ptr |-> b, size |-> DefaultBlockSize]
        b2 == FirstFit({blk}, BlockLayout(DefaultBlockSize))
        own(id) == alloc_all(alloc_block(new_arena(id, DefaultBlockSize), b),
                             << >>, WindowValues, StateSlot)
        other(id, base) == alloc_block(new_arena(id, DefaultBlockSize), base)
    IN {[own |-> own(0), arena |-> alloc(other(1, b2), T, 0).arena,
         issued |-> Issued(other(1, b2), alloc(other(1, b2), T, 0), T, None, 1, 0),
         mem |-> Write(own(0).mem, alloc(other(1, b2), T, 0).ptr, T, Bytes(0, T)),
         heap |-> {blk, [ptr |-> b2, size |-> DefaultBlockSize]},
         pc |-> "live"] : T \in {U32, Bool}}
       \cup
       {[own |-> own(1), arena |-> alloc(other(0, b), T, 0).arena,
         issued |-> Issued(other(0, b), alloc(other(0, b), T, 0), T, None, 1, 0),
         mem |-> own(1).mem,
         heap |-> {blk},
         pc |-> "dropped"] : T \in {U32, Bool}}

InitForeign ==
    \E f \in ForeignSetups :
        /\ ARENA_IDX = 2
        /\ heap = f.heap
        /\ mem = f.mem
        /\ pc = [s \in Slots |-> IF s = 1 THEN f.pc ELSE "none"]
        /\ arenas = [s \in Slots |-> IF s = 1 THEN f.arena ELSE NoArena]
        /\ refs = f.own.issued \o <<f.issued>>
        /\ clears = [s \in Slots \cup {StateSlot} |-> 0]
        /\ last = NoOp
        /\ state = State_new(f.own.arena, f.own.issued)
        /\ hist = NoHist
        /\ TREE_IDX = 0
        /\ trees = [s \in Slots |-> NoTree]
        /\ ring = NoRing
        /\ pipeline = NoPipeline

\* the calls that take a handle, with the handles of the State and the
\* foreign one
NextForeign ==
    \/ \E r \in Handles : \E v \in Values : Set(r, v)
    \/ \E r \in Handles : \E f \in Ops : MutateRef(r, f)
    \/ \E r \in Handles : EmitRefChanged(r)
    \/ \E r \in Handles : RedrawOnChange(r)
    \/ \E r \in Handles : Eval(r)
    \/ TakeRedrawRequest

SpecForeign == InitForeign /\ [][NextForeign]_vars

----------------------------------------------------------------------------
(* Lazy values (unison/src/reactivity.rs) *)

\* the LazyValue implementors: a handle, a tuple of lazy values, a Binding
RefNode(r) == [kind |-> "ref", ref |-> r]
TupleNode(items) == [kind |-> "tuple", items |-> items]
BindNode(inputs) == [kind |-> "bind", inputs |-> inputs]

\* the closure of the Binding at position path of its tree, applied to x;
\* closures are left uninterpreted
Apply(path, x) == [func |-> path, arg |-> x]

\* the trees of n nodes over the handles hs, and the tuples of trees with n
\* nodes in all
RECURSIVE TreesOfSize(_, _), ForestsOfSize(_, _)
TreesOfSize(n, hs) ==
    IF n = 0 THEN {}
    ELSE (IF n = 1 THEN {RefNode(r) : r \in hs} ELSE {})
         \cup {BindNode(t) : t \in TreesOfSize(n - 1, hs)}
         \cup {TupleNode(f) : f \in ForestsOfSize(n - 1, hs)}
ForestsOfSize(n, hs) ==
    IF n = 0 THEN {<< >>}
    ELSE UNION {{<<t>> \o f : t \in TreesOfSize(j, hs), f \in ForestsOfSize(n - j, hs)} :
                j \in 1..n}

Trees(hs) == UNION {TreesOfSize(n, hs) : n \in 1..MaxNodes}

\* a Binding that calls its closure on whatever the inputs gave
Binding_eval_unguarded(i, path) ==
    [result |-> Some(Apply(path, i.result)), applied |-> i.applied \cup {path}]

\* LazyValue::eval for Binding, given what self.inputs.eval(state) gave
Binding_eval(i, path) ==
    IF i.result.some
    THEN [result |-> Some(Apply(path, i.result.val)), applied |-> i.applied \cup {path}]
    ELSE [result |-> None, applied |-> i.applied]

\* LazyValue::eval: the result and the positions of the Bindings whose
\* closure was called.  A tuple evaluates its items in order and returns at
\* the first None; a Binding evaluates its inputs and returns on None (`?`).
RECURSIVE eval(_, _, _, _), eval_items(_, _, _, _, _, _)
eval(t, st, m, path) ==
    IF t.kind = "ref" THEN [result |-> eval_ref(st, m, t.ref), applied |-> {}]
    ELSE IF t.kind = "tuple"
    THEN eval_items(t.items, 1, [result |-> Some(<< >>), applied |-> {}], st, m, path)
    ELSE Binding_eval(eval(t.inputs, st, m, Append(path, 0)), path)
eval_items(items, k, acc, st, m, path) ==
    IF k > Len(items) THEN acc
    ELSE LET v == eval(items[k], st, m, Append(path, k))
         IN IF v.result.some
            THEN eval_items(items, k + 1,
                            [result |-> Some(Append(acc.result.val, v.result.val)),
                             applied |-> acc.applied \cup v.applied],
                            st, m, path)
            ELSE [result |-> None, applied |-> acc.applied \cup v.applied]

\* Value<T>
Const(v) == [kind |-> "const", val |-> v]
Lazy(t) == [kind |-> "lazy", tree |-> t]

\* Value::eval
Value_eval(val, st, m) ==
    IF val.kind = "const" THEN [result |-> Some(val.val), applied |-> {}]
    ELSE eval(val.tree, st, m, << >>)

\* value.eval(&state) for a Value the caller built over its handles
EvalValue(val) ==
    /\ last' = [op |-> "eval_value", value |-> val,
                result |-> Value_eval(val, state, mem).result,
                applied |-> Value_eval(val, state, mem).applied]
    /\ UNCHANGED <<ARENA_IDX, heap, mem, pc, arenas, refs, clears, state, hist, TREE_IDX, trees, ring, pipeline>>

\* a State, a foreign handle, and Values over both.  eval takes &State and
\* changes nothing, so an eval right after another one starts from a state
\* the first one started from as well and is left out.
NextBind ==
    \/ \E r \in Handles : \E v \in Values : Set(r, v)
    \/ /\ last.op # "eval_value"
       /\ \E val \in {Const(v) : v \in Values} \cup {Lazy(t) : t \in Trees(Handles)} :
            EvalValue(val)

SpecBind == InitForeign /\ [][NextBind]_vars

----------------------------------------------------------------------------
(* u32 and f32 arithmetic, as the tuple distribution of container.rs uses it *)

\* A u32 is kept by its 32 bits, read as a two's complement number: a value
\* below 2^31 stands for itself, a value v from 2^31 up is kept as v - 2^32.
I32Max == 2147483647
I32Min == -I32Max - 1
U32Max == -1

\* a < b as u32
u32_lt(a, b) == IF (a >= 0) = (b >= 0) THEN a < b ELSE a >= 0

\* u32::wrapping_add, u32::wrapping_sub
wrapping_add(a, b) ==
    IF a >= 0 /\ b >= 0 /\ a > I32Max - b THEN (a + I32Min) + (b + I32Min)
    ELSE IF a < 0 /\ b < 0 /\ a < I32Min - b THEN (a + I32Max + 1) + (b + I32Max + 1)
    ELSE a + b
wrapping_sub(a, b) ==
    IF a >= 0 /\ b < 0 /\ a > I32Max + b THEN (a + I32Min) - (b + I32Max + 1)
    ELSE IF a < 0 /\ b >= 0 /\ a < I32Min + b THEN (a + I32Max + 1) - (b + I32Min)
    ELSE a - b

\* whether a + b, a - b leave the range of u32
add_overflows(a, b) ==
    \/ a < 0 /\ b < 0
    \/ (a < 0) # (b < 0) /\ a + b >= 0
sub_overflows(a, b) == u32_lt(a, b)

\* a + b and a - b on u32: with overflow checks (a debug build) an overflow
\* panics, without them (a release build) the result wraps
u32_add(a, b, checks) ==
    IF checks /\ add_overflows(a, b) THEN [panic |-> TRUE]
    ELSE [panic |-> FALSE, val |-> wrapping_add(a, b)]
u32_sub(a, b, checks) ==
    IF checks /\ sub_overflows(a, b) THEN [panic |-> TRUE]
    ELSE [panic |-> FALSE, val |-> wrapping_sub(a, b)]

\* n * b on u32, for a small count n, as n additions
RECURSIVE u32_mul(_, _, _)
u32_mul(n, b, checks) ==
    IF n = 0 THEN [panic |-> FALSE, val |-> 0]
    ELSE LET rest == u32_mul(n - 1, b, checks)
         IN IF rest.panic THEN rest ELSE u32_add(rest.val, b, checks)

\* A non-negative f32: zero, infinity, NaN, or m * 2^e with m odd and below
\* 2^24 (the 24 bits of the significand).
F32Zero == [cls |-> "zero"]
F32Inf == [cls |-> "inf"]
F32NaN == [cls |-> "nan"]

RECURSIVE F32Num(_, _)
F32Num(m, e) ==
    IF m = 0 THEN F32Zero
    ELSE IF m % 2 = 0 THEN F32Num(m \div 2, e + 1)
    ELSE [cls |-> "num", m |-> m, e |-> e]

\* the integer nearest to num / den, a tie going to the even one
RoundEven(num, den) ==
    LET q == num \div den
        r == num % den
    IN IF 2 * r < den THEN q
       ELSE IF 2 * r > den THEN q + 1
       ELSE IF q % 2 = 0 THEN q ELSE q + 1

\* the f32 nearest to (num / den) * 2^e, for num, den > 0: the quotient is
\* scaled into [2^23, 2^24) and rounded there
RECURSIVE F32Round(_, _, _)
F32Round(num, den, e) ==
    IF num \div den >= 16777216 THEN F32Round(num, 2 * den, e + 1)
    ELSE IF num \div den < 8388608 THEN F32Round(2 * num, den, e - 1)
    ELSE F32Num(RoundEven(num, den), e)

\* x as f32, for a u32 x
u32_as_f32(x) ==
    IF x = 0 THEN F32Zero
    ELSE IF x > 0 THEN F32Round(x, 1, 0)
    ELSE F32Num(16777216 + RoundEven(x, 256), 8)

\* a / b and a * b on f32
f32_div(a, b) ==
    IF a.cls = "nan" \/ b.cls = "nan" \/ (a.cls = b.cls /\ a.cls # "num") THEN F32NaN
    ELSE IF a.cls = "inf" \/ b.cls = "zero" THEN F32Inf
    ELSE IF a.cls = "zero" \/ b.cls = "inf" THEN F32Zero
    ELSE F32Round(a.m, b.m, a.e - b.e)
f32_mul(a, b) ==
    IF a.cls = "nan" \/ b.cls = "nan" \/ {a.cls, b.cls} = {"zero", "inf"} THEN F32NaN
    ELSE IF a.cls = "inf" \/ b.cls = "inf" THEN F32Inf
    ELSE IF a.cls = "zero" \/ b.cls = "zero" THEN F32Zero
    ELSE F32Round(a.m * b.m, 1, a.e + b.e)

\* m * 2^e as u32, saturating, for m > 0 and e >= 0
RECURSIVE ShiftToU32(_, _)
ShiftToU32(m, e) ==
    IF e = 0 THEN m
    ELSE IF m < 1073741824 THEN ShiftToU32(2 * m, e - 1)
    ELSE IF e = 1 THEN 2 * (m + I32Min)
    ELSE U32Max

\* f as u32: the cast truncates toward zero, saturates, and takes NaN to 0
f32_as_u32(f) ==
    IF f.cls = "nan" \/ f.cls = "zero" THEN 0
    ELSE IF f.cls = "inf" THEN U32Max
    ELSE IF f.e >= 0 THEN ShiftToU32(f.m, f.e)
    ELSE IF f.e < -30 THEN 0
    ELSE f.m \div (2 ^ (-f.e))

----------------------------------------------------------------------------
(* The View a backend supplies (unison-backend/src/lib.rs), with the viewport
   stack of WgpuView (unison-backend-wgpu/src/wgpu_backend.rs).  log keeps
   the calls made during a draw pass, panic whether the pass panicked. *)

Bounds_new(top, left, bottom, right) ==
    [top |-> top, left |-> left, bottom |-> bottom, right |-> right]

\* WgpuViewState::new
WgpuViewState_new(window_size) == [pos |-> <<0, 0>>, size |-> window_size]

\* WgpuView::new
WgpuView_new(window_size) ==
    [window_size |-> window_size, state |-> <<WgpuViewState_new(window_size)>>,
     log |-> << >>, panic |-> FALSE]

\* get_state
get_state(view) == view.state[Len(view.state)]

Logged(view, call) == [view EXCEPT !.log = Append(@, call)]
Panicked(view) == [view EXCEPT !.panic = TRUE]

\* View::push
View_push(view) ==
    IF view.panic THEN view
    ELSE [Logged(view, [call |-> "push"]) EXCEPT !.state = Append(@, get_state(view))]

\* a restore that pops and nothing else
View_restore_pops(view) ==
    IF view.panic THEN view
    ELSE [Logged(view, [call |-> "restore"]) EXCEPT
             !.state = SubSeq(view.state, 1, Len(view.state) - 1)]

\* a restore that pops nothing
View_restore_keeps(view) ==
    IF view.panic THEN view ELSE Logged(view, [call |-> "restore"])

\* View::restore
View_restore(view) ==
    IF view.panic THEN view
    ELSE LET popped == SubSeq(view.state, 1, Len(view.state) - 1)
         IN [Logged(view, [call |-> "restore"]) EXCEPT
                !.state = IF popped = << >>
                          THEN <<WgpuViewState_new(view.window_size)>>
                          ELSE popped]

\* View::viewport_size
viewport_size(view) == get_state(view).size

\* View::set_viewport_horizontal (axis 1) and View::set_viewport_vertical
\* (axis 2)
set_viewport(view, axis, offset, extent, checks) ==
    IF view.panic THEN view
    ELSE LET s == get_state(view)
             p == u32_add(s.pos[axis], offset, checks)
             logged == Logged(view, [call |-> IF axis = 1 THEN "set_viewport_horizontal"
                                                           ELSE "set_viewport_vertical",
                                     offset |-> offset, extent |-> extent])
         IN IF p.panic THEN Panicked(logged)
            ELSE [logged EXCEPT !.state[Len(view.state)] =
                     [pos |-> [s.pos EXCEPT ![axis] = p.val],
                      size |-> [s.size EXCEPT ![axis] = extent]]]

\* View::apply_bounds
apply_bounds(view, bounds, checks) ==
    IF view.panic THEN view
    ELSE LET s == get_state(view)
             x == u32_add(s.pos[1], bounds.left, checks)
             lr == u32_add(bounds.left, bounds.right, checks)
             w == IF lr.panic THEN lr ELSE u32_sub(s.size[1], lr.val, checks)
             y == u32_add(s.pos[2], bounds.top, checks)
             tb == u32_add(bounds.top, bounds.bottom, checks)
             h == IF tb.panic THEN tb ELSE u32_sub(s.size[2], tb.val, checks)
             logged == Logged(view, [call |-> "apply_bounds", bounds |-> bounds])
         IN IF x.panic \/ w.panic \/ y.panic \/ h.panic THEN Panicked(logged)
            ELSE [logged EXCEPT !.state[Len(view.state)] =
                     [pos |-> <<x.val, y.val>>, size |-> <<w.val, h.val>>]]

----------------------------------------------------------------------------
(* Layout (unison/src/component.rs) and the containers
   (unison/src/container.rs) *)

Horizontal == "Horizontal"
Vertical == "Vertical"

\* the closure of bind!(focused => if focused { on } else { off }), and what
\* it returns for the evaluated inputs
Pick(off, on) == [off |-> off, on |-> on]
Call(func, inputs) == IF inputs[1][0] = 1 THEN func.on ELSE func.off

\* bind!(r => ...) as a Value: the Binding over the tuple (r,) with its
\* closure
Bound(r, func) ==
    [kind |-> "lazy", tree |-> BindNode(TupleNode(<<RefNode(r)>>)), func |-> func]

\* Layout::default
Layout_default ==
    [flex |-> Const(1),
     margin |-> Const(Bounds_new(0, 0, 0, 0)),
     padding |-> Const(Bounds_new(0, 0, 0, 0)),
     stack_orientation |-> Const(Horizontal),
     stack_spacing |-> Const(0)]

\* Layout::get_flex, get_margin, ...: self.$name.eval(state)
Layout_get(val, st, m) ==
    LET r == Value_eval(val, st, m).result
    IN IF r.some /\ val.kind = "lazy" THEN Some(Call(val.func, r.val.arg)) ELSE r

\* the child of a container: (), or a tuple of containers
Unit == [kind |-> "unit"]
TupleOf(items) == [kind |-> "tuple", items |-> items]

\* ComponentContainer, its component named by the position in the tree
ComponentContainer(layout, child) == [layout |-> layout, child |-> child]

\* Component::draw of the component at path: the view calls it makes are its
\* own business
Component_draw(view, path) ==
    IF view.panic THEN view ELSE Logged(view, [call |-> "draw", component |-> path])

AxisOf(orient) == IF orient = Horizontal THEN 1 ELSE 2

RECURSIVE ComponentContainer_draw(_, _, _, _, _, _, _)
RECURSIVE child_draw(_, _, _, _, _, _, _)
RECURSIVE tuple_items(_, _, _, _, _)

\* the stack distribution of impl_tuple_container::draw, from the second
\* loop on: item k gets its size, is drawn in its viewport, and the offset
\* moves on
tuple_items(items, k, offset, view, d) ==
    IF k > Len(items) \/ view.panic THEN view
    ELSE LET c == d.counts[k]
             el_size == IF k = Len(d.counts)
                        THEN u32_sub(d.size, offset, d.checks)
                        ELSE [panic |-> FALSE,
                              val |-> f32_as_u32(f32_mul(d.size_per_count, u32_as_f32(c)))]
             pushed == View_push(view)
             placed == set_viewport(pushed, AxisOf(d.orient), offset, el_size.val, d.checks)
             drawn == ComponentContainer_draw(items[k], Append(d.path, k), d.st, d.m,
                                              d.parent_layout, placed, d.checks)
             restored == View_restore(drawn)
             step == u32_add(el_size.val, d.spacing, d.checks)
             next == IF step.panic THEN step ELSE u32_add(offset, step.val, d.checks)
         IN IF el_size.panic THEN Panicked(view)
            ELSE IF restored.panic THEN restored
            ELSE IF next.panic THEN Panicked(restored)
            ELSE tuple_items(items, k + 1, next.val, restored, d)

\* the sum of the weights, as count += c adds them up
RECURSIVE sum_counts(_, _, _)
sum_counts(counts, k, checks) ==
    IF k = 0 THEN [panic |-> FALSE, val |-> 0]
    ELSE LET rest == sum_counts(counts, k - 1, checks)
         IN IF rest.panic THEN rest ELSE u32_add(rest.val, counts[k], checks)

\* ContainerLike::draw for () and for a tuple of containers
child_draw(child, path, st, m, parent_layout, view, checks) ==
    IF child.kind = "unit" \/ view.panic THEN view
    ELSE LET items == child.items
             flexes == [k \in 1..Len(items) |-> Layout_get(items[k].layout.flex, st, m)]
             counts == [k \in 1..Len(items) |-> flexes[k].val]
             count == sum_counts(counts, Len(items), checks)
             spacers == Len(items) - 1
             orient == Layout_get(parent_layout.stack_orientation, st, m)
             size == viewport_size(view)[AxisOf(orient.val)]
             spacing == Layout_get(parent_layout.stack_spacing, st, m)
             gaps == u32_mul(spacers, spacing.val, checks)
             component_space == IF gaps.panic THEN gaps ELSE u32_sub(size, gaps.val, checks)
             size_per_count == f32_div(u32_as_f32(component_space.val), u32_as_f32(count.val))
         IN IF \E k \in 1..Len(items) : ~flexes[k].some THEN Panicked(view)
            ELSE IF count.panic \/ ~orient.some \/ ~spacing.some THEN Panicked(view)
            ELSE IF component_space.panic THEN Panicked(view)
            ELSE tuple_items(items, 1, 0, view,
                             [counts |-> counts, size |-> size, spacing |-> spacing.val,
                              size_per_count |-> size_per_count, orient |-> orient.val,
                              path |-> path, st |-> st, m |-> m,
                              parent_layout |-> parent_layout, checks |-> checks])

\* a draw that hands the layout it received on to its child
ComponentContainer_draw_received_layout(c, path, st, m, parent_layout, view, checks) ==
    LET margin == Layout_get(c.layout.margin, st, m)
        padding == Layout_get(c.layout.padding, st, m)
        own == IF margin.some
               THEN Component_draw(apply_bounds(view, margin.val, checks), path)
               ELSE Panicked(view)
        padded == IF own.panic THEN own
                  ELSE IF padding.some THEN apply_bounds(own, padding.val, checks)
                  ELSE Panicked(own)
    IN IF view.panic THEN view
       ELSE child_draw(c.child, path, st, m, parent_layout, padded, checks)

\* ContainerLike::draw for ComponentContainer; unwrap() panics on None
ComponentContainer_draw(c, path, st, m, parent_layout, view, checks) ==
    LET margin == Layout_get(c.layout.margin, st, m)
        padding == Layout_get(c.layout.padding, st, m)
        own == IF margin.some
               THEN Component_draw(apply_bounds(view, margin.val, checks), path)
               ELSE Panicked(view)
        padded == IF own.panic THEN own
                  ELSE IF padding.some THEN apply_bounds(own, padding.val, checks)
                  ELSE Panicked(own)
    IN IF view.panic THEN view
       ELSE child_draw(c.child, path, st, m, c.layout, padded, checks)

\* ComponentTree::draw
ComponentTree_draw(tree, st, m, view, checks) ==
    ComponentContainer_draw(tree, << >>, st, m, Layout_default, view, checks)

\* Page::draw: a view of the window is created and the tree drawn into it.
\* checks tells whether the build has overflow checks.
PageDraw(tree, window_size, checks) ==
    /\ last' = [op |-> "draw_tree", tree |-> tree, window_size |-> window_size,
                checks |-> checks,
                view |-> ComponentTree_draw(tree, state, mem,
                                            WgpuView_new(window_size), checks)]
    /\ UNCHANGED <<ARENA_IDX, heap, mem, pc, arenas, refs, clears, state, hist, TREE_IDX, trees, ring, pipeline>>

----------------------------------------------------------------------------
(* Drawing a stack of siblings *)

\* the largest extent of the window along the stack, the largest spacing,
\* the largest flex weight and the largest number of siblings
MaxExtent == 10
MaxSpacing == 5
MaxWeight == 3
MaxSiblings == 3

\* a container that builds nothing, with the given flex weight
Leaf(flex) == ComponentContainer([Layout_default EXCEPT !.flex = flex], Unit)

\* a container whose child is the tuple of leaves of the given weights
Stack(weights, spacing, orient) ==
    ComponentContainer([Layout_default EXCEPT !.stack_orientation = Const(orient),
                                              !.stack_spacing = Const(spacing)],
                       TupleOf([k \in 1..Len(weights) |-> Leaf(Const(weights[k]))]))

WeightSeqs == UNION {[1..n -> 0..MaxWeight] : n \in 1..MaxSiblings}

\* the stacks drawn: all the small ones, and three wide ones
StackInputs ==
    [extent : 0..MaxExtent, spacing : 0..MaxSpacing, weights : WeightSeqs]
        \cup {[extent |-> 100, spacing |-> 10, weights |-> <<1, 1, 2>>],
              [extent |-> 100, spacing |-> 10, weights |-> <<1, 1, 3>>],
              [extent |-> 101, spacing |-> 10, weights |-> <<1, 1, 3>>]}

\* the window lies along the stack with the given extent, and is 1 across
WindowAlong(orient, extent) ==
    IF orient = Horizontal THEN <<extent, 1>> ELSE <<1, extent>>

\* a page whose root holds a stack is drawn once
NextStack ==
    /\ last.op # "draw_tree"
    /\ \E i \in StackInputs : \E orient \in {Horizontal, Vertical} :
       \E checks \in BOOLEAN :
           PageDraw(Stack(i.weights, i.spacing, orient),
                    WindowAlong(orient, i.extent), checks)

SpecStack == InitState /\ [][NextStack]_vars

----------------------------------------------------------------------------
(* ComponentTree (unison/src/container.rs) *)

\* the places a ComponentTree can be kept at
MaxTreeAddrs == 2

TreeAddrs == 1..MaxTreeAddrs

\* the roots the trees are built from
Roots == {Leaf(Const(1)), Stack(<<1, 1>>, 0, Horizontal)}

\* ComponentTree::new up to the end of the struct literal: the containers
\* are built, then TREE_IDX.load(Relaxed) gives tree_idx
TreeLoad(s, root) ==
    /\ trees[s].pc = "none"
    /\ trees' = [trees EXCEPT ![s] = [pc |-> "loaded", tree |-> root, tree_idx |-> TREE_IDX]]
    /\ last' = [op |-> "tree_load", slot |-> s]
    /\ UNCHANGED <<ARENA_IDX, heap, mem, pc, arenas, refs, clears, state, hist, TREE_IDX, ring, pipeline>>

\* the rest of ComponentTree::new: TREE_IDX.fetch_add(1, Relaxed); the tree
\* is returned and its owner keeps it at addr
TreeFinish(s, addr) ==
    /\ trees[s].pc = "loaded"
    /\ \A t \in Slots : trees[t].pc = "live" => trees[t].addr # addr
    /\ TREE_IDX' = TREE_IDX + 1
    /\ trees' = [trees EXCEPT ![s] = [pc |-> "live", tree |-> @.tree,
                                      tree_idx |-> @.tree_idx, addr |-> addr]]
    /\ last' = [op |-> "tree_new", slot |-> s]
    /\ UNCHANGED <<ARENA_IDX, heap, mem, pc, arenas, refs, clears, state, hist, ring, pipeline>>

\* the tree is dropped
TreeDrop(s) ==
    /\ trees[s].pc = "live"
    /\ trees' = [trees EXCEPT ![s].pc = "dropped"]
    /\ last' = [op |-> "tree_drop", slot |-> s]
    /\ UNCHANGED <<ARENA_IDX, heap, mem, pc, arenas, refs, clears, state, hist, TREE_IDX, ring, pipeline>>

\* an EventHandlerRef to the root container of a tree
EventHandlerRef(tree) == [container |-> tree.addr, tree_idx |-> tree.tree_idx]

\* ComponentTree::get_event_handler
get_event_handler(tree, handler) ==
    IF handler.tree_idx # tree.tree_idx THEN None ELSE Some(handler.container)

\* tree t is asked for the handler of a ref taken from tree s
GetEventHandler(t, s) ==
    /\ trees[t].pc = "live"
    /\ trees[s].pc \in {"live", "dropped"}
    /\ last' = [op |-> "get_event_handler", tree |-> t, from |-> s,
                handler |-> EventHandlerRef(trees[s]),
                result |-> get_event_handler(trees[t], EventHandlerRef(trees[s]))]
    /\ UNCHANGED <<ARENA_IDX, heap, mem, pc, arenas, refs, clears, state, hist, TREE_IDX, trees, ring, pipeline>>

InTreeConstructor(t) == \E s \in Slots : Thread(s) = t /\ trees[s].pc = "loaded"

\* several trees on two threads: a thread makes one call at a time and
\* builds its trees in the order of their slots; the two atomic operations
\* of ComponentTree::new interleave with the calls of the other thread.  A
\* ref holds a raw pointer and a tree holds boxed lazy values, so neither
\* leaves the thread that made it.
NextTrees ==
    \/ \E s \in Slots : \E root \in Roots :
         /\ ~InTreeConstructor(Thread(s))
         /\ \A t \in 1..(s - 1) : Thread(t) = Thread(s) => trees[t].pc # "none"
         /\ TreeLoad(s, root)
    \/ \E s \in Slots : \E addr \in TreeAddrs : TreeFinish(s, addr)
    \/ \E s \in Slots : ~InTreeConstructor(Thread(s)) /\ TreeDrop(s)
    \/ \E t \in Slots : \E s \in Slots :
         /\ Thread(s) = Thread(t)
         /\ ~InTreeConstructor(Thread(t))
         /\ GetEventHandler(t, s)

SpecTrees == Init /\ [][NextTrees]_vars

----------------------------------------------------------------------------
(* Drawing a tree of containers *)

\* the largest number of containers of a tree
MaxContainers == 4

\* the layout of the k-th container of a tree (in the order they are drawn)
\* at the given depth: constants that tell the containers apart
Plain(k, depth) ==
    [flex |-> Const(k),
     margin |-> Const(Bounds_new(k, k, 0, 0)),
     padding |-> Const(Bounds_new(0, 0, k, 1)),
     stack_orientation |-> Const(IF depth % 2 = 0 THEN Vertical ELSE Horizontal),
     stack_spacing |-> Const(depth + 1)]

\* the containers with n components whose root is the k-th drawn, and the
\* tuples of containers with n components in all
RECURSIVE ContainersOfSize(_, _, _), TuplesOfSize(_, _, _)
ContainersOfSize(n, k, depth) ==
    IF n = 0 THEN {}
    ELSE IF n = 1 THEN {ComponentContainer(Plain(k, depth), Unit)}
    ELSE {ComponentContainer(Plain(k, depth), TupleOf(items)) :
              items \in TuplesOfSize(n - 1, k + 1, depth + 1)}
TuplesOfSize(n, k, depth) ==
    IF n = 0 THEN {<< >>}
    ELSE UNION {{<<c>> \o rest : c \in ContainersOfSize(j, k, depth),
                                 rest \in TuplesOfSize(n - j, k + j, depth)} :
                j \in 1..n}

\* the positions of the containers of a tree, and the container at one
RECURSIVE Paths(_)
Paths(c) ==
    {<< >>} \cup
    (IF c.child.kind = "unit" THEN {}
     ELSE UNION {{<<k>> \o p : p \in Paths(c.child.items[k])} :
                 k \in 1..Len(c.child.items)})
RECURSIVE NodeAt(_, _)
NodeAt(c, p) == IF p = << >> THEN c ELSE NodeAt(c.child.items[Head(p)], Tail(p))

Fields == {"flex", "margin", "padding", "stack_orientation", "stack_spacing"}

\* a value of the field other than v
Other(field, v) ==
    CASE field = "flex" -> v + 1
      [] field = "margin" -> Bounds_new(0, 0, 0, 0)
      [] field = "padding" -> Bounds_new(0, 0, 0, 0)
      [] field = "stack_orientation" -> IF v = Horizontal THEN Vertical ELSE Horizontal
      [] field = "stack_spacing" -> 0

\* the tree with layout.set_$field(bind!(r => ...)) done in the layout() of
\* the component at path p
RECURSIVE WithBinding(_, _, _, _)
WithBinding(c, p, field, r) ==
    IF p = << >>
    THEN [c EXCEPT !.layout[field] = Bound(r, Pick(@.val, Other(field, @.val)))]
    ELSE [c EXCEPT !.child.items[Head(p)] = WithBinding(@, Tail(p), field, r)]

\* the trees drawn: those of constant layouts, and those with one field of
\* one layout bound to one of the handles hs
DrawTrees(hs) ==
    LET plain == UNION {ContainersOfSize(n, 1, 0) : n \in 1..MaxContainers}
    IN plain \cup
       UNION {{WithBinding(c, p, field, r) : p \in Paths(c), field \in Fields, r \in hs} :
              c \in plain}

DrawWindow == <<40, 30>>

\* a page is drawn; between the draws the window gains and loses the focus
NextDraw ==
    \/ \E v \in Values : Set(state.window_focused, v)
    \/ /\ last.op # "draw_tree"
       /\ \E tree \in DrawTrees(Handles) : \E checks \in BOOLEAN :
              PageDraw(tree, DrawWindow, checks)

SpecDraw == InitForeign /\ [][NextDraw]_vars

----------------------------------------------------------------------------
(* A RingBuffer under push and pop_bottom (unison/src/misc.rs) *)

MaxCapacity == 3
MaxPushes == 5

\* the values pushed: the k-th push carries k, so that every value is distinct
RingValues == 1..MaxPushes

\* RingBuffer::is_empty
is_empty(rb) == rb.head = rb.tail

\* RingBuffer::pop_bottom. assume_init_read of a slot that was never written
\* reads an uninitialized value: garbage is what that read yields.
pop_bottom(rb, garbage) ==
    IF is_empty(rb)
    THEN [rb |-> rb, ret |-> None, unwritten |-> FALSE]
    ELSE LET slot == rb.buffer[rb.tail + 1]
             val == IF slot = Uninit THEN garbage ELSE slot
             tail == IF rb.tail + 1 >= Len(rb.buffer) THEN 0 ELSE rb.tail + 1
         IN [rb |-> [rb EXCEPT !.tail = tail],
             ret |-> Some(val), unwritten |-> slot = Uninit]

\* RingBuffer::new(capacity); pending is the history of the values pushed and
\* not popped yet, oldest first
RingNew(capacity) ==
    /\ ~ring.constructed
    /\ ring' = [constructed |-> TRUE, rb |-> RingBuffer_new(capacity),
                pushes |-> 0, pending |-> << >>]
    /\ last' = [op |-> "ring_new", capacity |-> capacity]
    /\ UNCHANGED <<ARENA_IDX, heap, mem, pc, arenas, refs, clears, state, hist, TREE_IDX, trees, pipeline>>

\* buf.push(val)
Push ==
    /\ ring.constructed
    /\ ring.pushes < MaxPushes
    /\ LET val == ring.pushes + 1
           rb == push(ring.rb, val)
       IN /\ ring' = [ring EXCEPT !.rb = rb, !.pushes = val,
                                  !.pending = Append(@, val)]
          /\ last' = [op |-> "push", val |-> val,
                      grew |-> Len(rb.buffer) > Len(ring.rb.buffer),
                      head |-> ring.rb.head, tail |-> ring.rb.tail]
    /\ UNCHANGED <<ARENA_IDX, heap, mem, pc, arenas, refs, clears, state, hist, TREE_IDX, trees, pipeline>>

\* buf.pop_bottom()
PopBottom ==
    /\ ring.constructed
    /\ \E garbage \in RingValues :
           LET r == pop_bottom(ring.rb, garbage)
           IN /\ ring' = [ring EXCEPT !.rb = r.rb,
                                      !.pending = IF @ = << >> THEN @ ELSE Tail(@)]
              /\ last' = [op |-> "pop_bottom", ret |-> r.ret,
                          oldest |-> IF ring.pending = << >> THEN None
                                     ELSE Some(Head(ring.pending)),
                          unwritten |-> r.unwritten]
    /\ UNCHANGED <<ARENA_IDX, heap, mem, pc, arenas, refs, clears, state, hist, TREE_IDX, trees, pipeline>>

NextRing ==
    \/ \E capacity \in 1..MaxCapacity : RingNew(capacity)
    \/ Push
    \/ PopBottom

SpecRing == Init /\ [][NextRing]_vars

----------------------------------------------------------------------------
(* A State across clear(): the caller uses the handles it holds, public     *)
(* window handles included, by their positions in refs                     *)

\* handles a behaviour of SpecClear may get from State::alloc
MaxClearAllocs == 2

\* State::new(), with the history of the handles redraw_on_change was called
\* with (their positions in refs)
InitClear ==
    \E b \in {FirstFit({}, BlockLayout(DefaultBlockSize))} :
        LET own == alloc_all(alloc_block(new_arena(0, DefaultBlockSize), b),
                             << >>, WindowValues, StateSlot)
        IN /\ ARENA_IDX = 1
           /\ heap = {[ptr |-> b, size |-> DefaultBlockSize]}
           /\ mem = own.mem
           /\ pc = [s \in Slots |-> "none"]
           /\ arenas = [s \in Slots |-> NoArena]
           /\ refs = own.issued
           /\ clears = [s \in Slots \cup {StateSlot} |-> 0]
           /\ last = NoOp
           /\ state = State_new(own.arena, own.issued)
           /\ hist = [taken |-> FALSE, emits |-> 0, registered |-> {}]
           /\ TREE_IDX = 0
           /\ trees = [s \in Slots |-> NoTree]
           /\ ring = NoRing
           /\ pipeline = NoPipeline

\* the values read through every handle issued so far
ValuesNow(m) == [i \in 1..Len(refs) |-> Read(m, refs[i].ref.ptr, refs[i].ref.T)]

\* State::set(r, val) with r the k-th handle issued
SetOf(k, v) ==
    LET r == refs[k].ref
        res == State_set(state, mem, r, Bytes(v, r.T))
        old == get(state.arena, mem, r)
    IN /\ state' = res.state
       /\ mem' = res.mem
       /\ last' = [op |-> "set_of", issued |-> k, result |-> res.result,
                   changed |-> old # Some(Bytes(v, r.T)),
                   flag_before |-> state.request_redraw,
                   before |-> ValuesNow(mem)]
       /\ hist' = [hist EXCEPT !.taken =
                        @ /\ ~(old.some /\ Watched(r) /\ old # Some(Bytes(v, r.T)))]
       /\ UNCHANGED <<ARENA_IDX, heap, pc, arenas, refs, clears, TREE_IDX, trees, ring, pipeline>>

\* State::redraw_on_change(r) with r the k-th handle issued
RedrawOnChangeOf(k) ==
    /\ state' = redraw_on_change(state, refs[k].ref)
    /\ last' = [op |-> "redraw_on_change_of", issued |-> k,
                flag_before |-> state.request_redraw]
    /\ hist' = [hist EXCEPT !.registered = @ \cup {k}]
    /\ UNCHANGED <<ARENA_IDX, heap, mem, pc, arenas, refs, clears, TREE_IDX, trees, ring, pipeline>>

\* the handles the caller passes to the State, by their positions in refs:
\* window_size, window_focused and those State::alloc returned
Held == {1, 3} \cup ((Len(WindowValues) + 1)..Len(refs))

NextClear ==
    \/ \E T \in StateTypes : \E v \in Values :
         /\ Len(refs) < Len(WindowValues) + MaxClearAllocs
         /\ StateAlloc(T, v)
    \/ \E k \in Held : \E v \in Values : SetOf(k, v)
    \/ \E k \in Held : RedrawOnChangeOf(k)
    \/ clears[StateSlot] < MaxClears /\ StateClear

SpecClear == InitClear /\ [][NextClear]_vars

----------------------------------------------------------------------------
(* Lazy values evaluated again and again, between changes of the handles *)

\* nodes of the LazyValue trees a behaviour of SpecMemo evaluates
MaxMemoNodes == 3

MemoValues(hs) ==
    {Const(v) : v \in Values}
        \cup {Lazy(t) : t \in UNION {TreesOfSize(n, hs) : n \in 1..MaxMemoNodes}}

\* a State, a foreign handle, and Values over both, evaluated any number of
\* times between calls of set, mutate_ref and redraw_on_change
NextMemo ==
    \/ \E r \in Handles : \E v \in Values : Set(r, v)
    \/ \E r \in Handles : \E f \in Ops : MutateRef(r, f)
    \/ \E r \in Handles : RedrawOnChange(r)
    \/ \E val \in MemoValues(Handles) : EvalValue(val)

SpecMemo == InitForeign /\ [][NextMemo]_vars

----------------------------------------------------------------------------
(* A WgpuView under the calls of the View trait
   (unison-backend-wgpu/src/wgpu_backend.rs) *)

\* the largest number of calls made on a view
MaxViewCalls == 4

\* the window, and the arguments of the calls
ViewWindows == {<<0, 0>>, <<8, 6>>}
ViewOffsets == {0, 3}
ViewExtents == {0, 5}
ViewBounds == {Bounds_new(0, 1, 1, 2), Bounds_new(3, 0, 4, 0)}

\* View::reset_viewport
View_reset_viewport(view) ==
    IF view.panic THEN view
    ELSE [Logged(view, [call |-> "reset_viewport"]) EXCEPT
             !.state[Len(view.state)] = WgpuViewState_new(view.window_size)]

\* WgpuView::new over a surface of the given window size. saved keeps the
\* viewports that were current at the pushes not restored yet.
ViewNew(window_size, checks) ==
    /\ last = NoOp
    /\ last' = [op |-> "view_new", view |-> WgpuView_new(window_size),
                checks |-> checks, saved |-> << >>, before |-> << >>,
                calls |-> 0]
    /\ UNCHANGED <<ARENA_IDX, heap, mem, pc, arenas, refs, clears, state, hist, TREE_IDX, trees, ring, pipeline>>

\* a call on the view made: the view it leaves and the viewports saved. The
\* calls are counted and their log is not kept.
ViewCalled(op, view, saved) ==
    /\ last # NoOp
    /\ ~last.view.panic
    /\ last.calls < MaxViewCalls
    /\ last' = [last EXCEPT !.op = op, !.view = [view EXCEPT !.log = << >>],
                            !.saved = saved, !.before = last.view.state,
                            !.calls = @ + 1]
    /\ UNCHANGED <<ARENA_IDX, heap, mem, pc, arenas, refs, clears, state, hist, TREE_IDX, trees, ring, pipeline>>

\* view.push()
ViewPush ==
    ViewCalled("push", View_push(last.view), Append(last.saved, get_state(last.view)))

\* view.restore()
ViewRestore ==
    ViewCalled("restore", View_restore(last.view),
               SubSeq(last.saved, 1, Len(last.saved) - 1))

\* view.reset_viewport()
ViewResetViewport ==
    ViewCalled("reset_viewport", View_reset_viewport(last.view), last.saved)

\* view.set_viewport_horizontal(offset, extent) and
\* view.set_viewport_vertical(offset, extent)
ViewSetViewport(axis, offset, extent) ==
    ViewCalled("set_viewport", set_viewport(last.view, axis, offset, extent, last.checks),
               last.saved)

\* view.apply_bounds(bounds)
ViewApplyBounds(bounds) ==
    ViewCalled("apply_bounds", apply_bounds(last.view, bounds, last.checks), last.saved)

NextView ==
    \/ \E window_size \in ViewWindows : \E checks \in BOOLEAN : ViewNew(window_size, checks)
    \/ ViewPush
    \/ ViewRestore
    \/ ViewResetViewport
    \/ \E axis \in {1, 2} : \E offset \in ViewOffsets : \E extent \in ViewExtents :
           ViewSetViewport(axis, offset, extent)
    \/ \E bounds \in ViewBounds : ViewApplyBounds(bounds)

SpecView == Init /\ [][NextView]_vars

----------------------------------------------------------------------------
(* ComponentContainer::new over a State (unison/src/container.rs): the
   build and layout functions of the components allocate in the State and
   register what they allocated *)

\* the largest number of components of a tree that is built
MaxBuildNodes == 4

\* State::alloc(val) in a build or layout function; ctx is the State, the
\* memory, the handles given out and the calls made so far
Hook_alloc(ctx, T, v) ==
    LET r == alloc(ctx.state.arena, T, 0)
    IN [ctx EXCEPT !.state.arena = r.arena,
                   !.mem = Write(@, r.ptr, T, Bytes(v, T)),
                   !.issued = Append(@, Issued(ctx.state.arena, r, T, None, StateSlot, 0))]

\* the handle the last Hook_alloc gave out
Hook_ref(ctx) == ctx.issued[Len(ctx.issued)].ref

\* Component::build of the component at path: it allocates a value, as a
\* build function may, and returns the children
Component_build(c, path, ctx, v) ==
    LET done == Hook_alloc(ctx, U32, v)
    IN [done EXCEPT !.calls = Append(@, [call |-> "build", component |-> path,
                                         ref |-> Hook_ref(done)])]

\* Component::layout of the component at path: it allocates a flag,
\* registers it with redraw_on_change and binds the stack orientation to it,
\* as MainView::layout does with window_focused
Component_layout(c, path, ctx, v) ==
    LET done == Hook_alloc(ctx, Bool, v)
        r == Hook_ref(done)
    IN [ctx |-> [done EXCEPT !.state = redraw_on_change(@, r),
                             !.calls = Append(@, [call |-> "layout", component |-> path,
                                                  ref |-> r])],
        layout |-> [c.layout EXCEPT
                       !.stack_orientation = Bound(r, Pick(Vertical, Horizontal))]]

RECURSIVE ComponentContainer_new(_, _, _, _)
RECURSIVE ComponentContainer_new_child_first(_, _, _, _)
RECURSIVE contain(_, _, _, _, _)
RECURSIVE contain_child_first(_, _, _, _, _)

\* Containable::contain for () and for the tuple of the components from the
\* k-th on
contain(child, path, k, ctx, v) ==
    IF child.kind = "unit" THEN [container |-> Unit, ctx |-> ctx]
    ELSE IF k > Len(child.items) THEN [container |-> TupleOf(<< >>), ctx |-> ctx]
    ELSE LET first == ComponentContainer_new(child.items[k], Append(path, k), ctx, v)
             rest == contain(child, path, k + 1, first.ctx, v)
         IN [container |-> TupleOf(<<first.container>> \o rest.container.items),
             ctx |-> rest.ctx]

contain_child_first(child, path, k, ctx, v) ==
    IF child.kind = "unit" THEN [container |-> Unit, ctx |-> ctx]
    ELSE IF k > Len(child.items) THEN [container |-> TupleOf(<< >>), ctx |-> ctx]
    ELSE LET first == ComponentContainer_new_child_first(child.items[k], Append(path, k),
                                                         ctx, v)
             rest == contain_child_first(child, path, k + 1, first.ctx, v)
         IN [container |-> TupleOf(<<first.container>> \o rest.container.items),
             ctx |-> rest.ctx]

\* a ComponentContainer::new that contains the child before it asks for the
\* layout
ComponentContainer_new_child_first(c, path, ctx, v) ==
    LET built == Component_build(c, path, ctx, v)
        contained == contain_child_first(c.child, path, 1, built, v)
        laid == Component_layout(c, path, contained.ctx, v)
    IN [container |-> ComponentContainer(laid.layout, contained.container),
        ctx |-> laid.ctx]

\* ComponentContainer::new
ComponentContainer_new(c, path, ctx, v) ==
    LET built == Component_build(c, path, ctx, v)
        laid == Component_layout(c, path, built, v)
        contained == contain(c.child, path, 1, laid.ctx, v)
    IN [container |-> ComponentContainer(laid.layout, contained.container),
        ctx |-> contained.ctx]

\* the trees of components that are built
BuildRoots == UNION {ContainersOfSize(n, 1, 0) : n \in 1..MaxBuildNodes}

InitBuild ==
    \E b \in {FirstFit({}, BlockLayout(DefaultBlockSize))} :
        LET own == alloc_all(alloc_block(new_arena(0, DefaultBlockSize), b),
                             << >>, WindowValues, StateSlot)
        IN /\ ARENA_IDX = 1
           /\ heap = {[ptr |-> b, size |-> DefaultBlockSize]}
           /\ mem = own.mem
           /\ pc = [s \in Slots |-> "none"]
           /\ arenas = [s \in Slots |-> NoArena]
           /\ refs = own.issued
           /\ clears = [s \in Slots \cup {StateSlot} |-> 0]
           /\ last = NoOp
           /\ state = State_new(own.arena, own.issued)
           /\ hist = [taken |-> FALSE, emits |-> 0, built |-> FALSE, calls |-> << >>,
                   tree |-> Unit]
           /\ TREE_IDX = 0
           /\ trees = [s \in Slots |-> NoTree]
           /\ ring = NoRing
           /\ pipeline = NoPipeline

\* ComponentContainer::new(root, state), as ComponentTree::new calls it
ContainerNew(root, v) ==
    /\ ~hist.built
    /\ LET made == ComponentContainer_new(root, << >>,
                                          [state |-> state, mem |-> mem, issued |-> refs,
                                           calls |-> << >>], v)
       IN /\ state' = made.ctx.state
          /\ mem' = made.ctx.mem
          /\ refs' = made.ctx.issued
          /\ hist' = [hist EXCEPT !.built = TRUE, !.calls = made.ctx.calls,
                                !.tree = made.container]
          /\ last' = [op |-> "container_new", root |-> root]
    /\ UNCHANGED <<ARENA_IDX, heap, pc, arenas, clears, TREE_IDX, trees, ring, pipeline>>

\* the handles set from outside: window_focused, and the flag the layout
\* function of the root allocated
BuildHandles ==
    {state.window_focused} \cup (IF hist.built THEN {hist.calls[2].ref} ELSE {})

\* a tree is built once; it is drawn, and handles are set before and after
NextBuild ==
    \/ \E root \in BuildRoots : \E v \in Values : ContainerNew(root, v)
    \/ \E r \in BuildHandles : \E v \in Values : Set(r, v)
    \/ /\ hist.built
       /\ last.op # "draw_tree"
       /\ \E checks \in BOOLEAN : PageDraw(hist.tree, DrawWindow, checks)

SpecBuild == InitBuild /\ [][NextBuild]_vars

----------------------------------------------------------------------------
(* App::handle_window_event (unison/src/runtime.rs) over the one window of
   an App and its Page *)

\* the id of the window of the App, and an id the App has no window for
AppWindow == "window"
WindowIds == {AppWindow, "unknown"}

\* the events of the host: a resize, a move and a focus change carry a value,
\* every other event does not matter
WindowEvents ==
    [kind : {"Resized", "Moved", "Focused"}, val : Values] \cup {[kind |-> "Other"]}

\* size.width.max(1), size.height.max(1)
AtLeastOne(v) == IF v < 1 THEN 1 ELSE v

\* a focus change that is stored and not announced
emit_window_focus_changed_silent(st, m, focused) ==
    [state |-> st, mem |-> Write(m, st.window_focused.ptr, Bool, Bytes(focused, Bool)),
     result |-> Some(<< >>)]

\* DynPage::emit_window_moved and DynPage::emit_window_focus_changed for Page
emit_window_moved(st, m, pos) == State_set(st, m, st.window_pos, Bytes(pos, Pair32))
emit_window_focus_changed(st, m, focused) ==
    State_set(st, m, st.window_focused, Bytes(focused, Bool))

\* the match of handle_window_event on the event: the State, the memory and
\* the size of the surface it leaves
window_event_match(st, m, surface, ev) ==
    CASE ev.kind = "Resized" -> [state |-> st, mem |-> m, surface |-> AtLeastOne(ev.val)]
      [] ev.kind = "Moved" ->
             [state |-> emit_window_moved(st, m, ev.val).state,
              mem |-> emit_window_moved(st, m, ev.val).mem, surface |-> surface]
      [] ev.kind = "Focused" ->
             [state |-> emit_window_focus_changed(st, m, ev.val).state,
              mem |-> emit_window_focus_changed(st, m, ev.val).mem, surface |-> surface]
      [] OTHER -> [state |-> st, mem |-> m, surface |-> surface]

\* a Page in a Viewport of a running App: the State as State::new left it,
\* the surface not configured by a resize yet
InitApp ==
    \E b \in {FirstFit({}, BlockLayout(DefaultBlockSize))} :
        LET own == alloc_all(alloc_block(new_arena(0, DefaultBlockSize), b),
                             << >>, WindowValues, StateSlot)
        IN /\ ARENA_IDX = 1
           /\ heap = {[ptr |-> b, size |-> DefaultBlockSize]}
           /\ mem = own.mem
           /\ pc = [s \in Slots |-> "none"]
           /\ arenas = [s \in Slots |-> NoArena]
           /\ refs = own.issued
           /\ clears = [s \in Slots \cup {StateSlot} |-> 0]
           /\ last = NoOp
           /\ state = State_new(own.arena, own.issued)
           /\ hist = [taken |-> FALSE, emits |-> 0, surface |-> 0]
           /\ TREE_IDX = 0
           /\ trees = [s \in Slots |-> NoTree]
           /\ ring = NoRing
           /\ pipeline = NoPipeline

\* the handles of the window the events are about
WindowRefs == {state.window_size, state.window_pos, state.window_focused}

\* App::handle_window_event(id, ev); requested tells whether
\* window.request_redraw() was called
HandleWindowEvent(id, ev) ==
    /\ IF id # AppWindow
       THEN /\ last' = [op |-> "window_event", id |-> id, ev |-> ev, requested |-> FALSE,
                        flag_before |-> state.request_redraw, notified |-> FALSE,
                        before |-> [state |-> state, mem |-> mem, surface |-> hist.surface]]
            /\ UNCHANGED <<state, mem, hist>>
       ELSE LET matched == window_event_match(state, mem, hist.surface, ev)
                taken == take_redraw_request(matched.state)
            IN /\ state' = taken.state
               /\ mem' = matched.mem
               /\ hist' = [hist EXCEPT !.surface = matched.surface]
               /\ last' = [op |-> "window_event", id |-> id, ev |-> ev,
                           requested |-> taken.result,
                           flag_before |-> state.request_redraw,
                           notified |->
                               \E r \in WindowRefs :
                                   /\ Watched(r)
                                   /\ get(state.arena, mem, r) # get(state.arena, mem', r),
                           before |-> [state |-> state, mem |-> mem,
                                       surface |-> hist.surface]]
    /\ UNCHANGED <<ARENA_IDX, heap, pc, arenas, refs, clears, TREE_IDX, trees, ring, pipeline>>

\* the events of the host arrive in any order; layout functions register the
\* window handles, and code of the page sets them
NextApp ==
    \/ \E id \in WindowIds : \E ev \in WindowEvents : HandleWindowEvent(id, ev)
    \/ \E r \in WindowRefs : RedrawOnChange(r)
    \/ \E r \in WindowRefs : \E v \in Values : Set(r, v)

SpecApp == InitApp /\ [][NextApp]_vars

----------------------------------------------------------------------------
(* The EventState of a State under get_event_type and emit
   (unison/src/events.rs) *)

\* the largest number of events emitted, and of event types asked for
MaxEventEmits == 65
MaxTypeCalls == 3

\* the names and the payload types of the events
EventNames == {"clicked", "closed"}
PayloadTypes == {"u32", "bool"}

\* EventType::new
EventType_new(ty, T) == [ty |-> ty, T |-> T]

\* EventState::get_event_type::<T>(name); panic tells whether it panicked
\* with "wrong type"
get_event_type(es, name, T) ==
    IF name \in DOMAIN es.event_names
    THEN IF T # es.event_types[es.event_names[name] + 1]
         THEN [es |-> es, panic |-> TRUE, ret |-> None]
         ELSE [es |-> es, panic |-> FALSE,
               ret |-> Some(EventType_new(es.event_names[name], T))]
    ELSE [es |-> [es EXCEPT !.event_types = Append(@, T)],
          panic |-> FALSE,
          ret |-> Some(EventType_new(Len(es.event_types), T))]

\* the slots of a RingBuffer from tail up to head, the oldest first
RECURSIVE Between(_, _, _)
Between(rb, from, n) ==
    IF from = rb.head \/ n = 0 THEN << >>
    ELSE <<rb.buffer[from + 1]>>
             \o Between(rb, IF from + 1 >= Len(rb.buffer) THEN 0 ELSE from + 1, n - 1)
Contents(rb) == Between(rb, rb.tail, Len(rb.buffer))

\* a State as State::new left it; asked keeps the calls of get_event_type
InitEvents ==
    \E b \in {FirstFit({}, BlockLayout(DefaultBlockSize))} :
        LET own == alloc_all(alloc_block(new_arena(0, DefaultBlockSize), b),
                             << >>, WindowValues, StateSlot)
        IN /\ ARENA_IDX = 1
           /\ heap = {[ptr |-> b, size |-> DefaultBlockSize]}
           /\ mem = own.mem
           /\ pc = [s \in Slots |-> "none"]
           /\ arenas = [s \in Slots |-> NoArena]
           /\ refs = own.issued
           /\ clears = [s \in Slots \cup {StateSlot} |-> 0]
           /\ last = NoOp
           /\ state = State_new(own.arena, own.issued)
           /\ hist = [taken |-> FALSE, emits |-> 0, asked |-> << >>]
           /\ TREE_IDX = 0
           /\ trees = [s \in Slots |-> NoTree]
           /\ ring = NoRing
           /\ pipeline = NoPipeline

\* State::get_event_type::<T>(name)
GetEventType(name, T) ==
    LET r == get_event_type(state.event_state, name, T)
    IN /\ Len(hist.asked) < MaxTypeCalls
       /\ state' = [state EXCEPT !.event_state = r.es]
       /\ hist' = [hist EXCEPT !.asked = Append(@, [name |-> name, T |-> T, ret |-> r.ret])]
       /\ last' = [op |-> "get_event_type", name |-> name, T |-> T, ret |-> r.ret,
                   panic |-> r.panic]
       /\ UNCHANGED <<ARENA_IDX, heap, mem, pc, arenas, refs, clears, TREE_IDX, trees, ring, pipeline>>

\* State::emit(ty, val): the k-th event emitted carries k
EmitEvent ==
    /\ hist.emits < MaxEventEmits
    /\ state' = [state EXCEPT !.event_state = emit(@, 0, hist.emits + 1)]
    /\ hist' = [hist EXCEPT !.emits = @ + 1]
    /\ last' = [op |-> "emit", flag_before |-> state.request_redraw]
    /\ UNCHANGED <<ARENA_IDX, heap, mem, pc, arenas, refs, clears, TREE_IDX, trees, ring, pipeline>>

NextEvents ==
    \/ \E name \in EventNames : \E T \in PayloadTypes : GetEventType(name, T)
    \/ EmitEvent

SpecEvents == InitEvents /\ [][NextEvents]_vars

----------------------------------------------------------------------------
(* A RingBuffer under push, pop_top and pop_bottom (unison/src/misc.rs) *)

\* RingBuffer::pop_top. assume_init_read of a slot that was never written
\* reads an uninitialized value: garbage is what that read yields.
pop_top(rb, garbage) ==
    IF is_empty(rb)
    THEN [rb |-> rb, ret |-> None, unwritten |-> FALSE]
    ELSE LET head == IF rb.head = 0 THEN Len(rb.buffer) - 1 ELSE rb.head - 1
             slot == rb.buffer[head + 1]
             val == IF slot = Uninit THEN garbage ELSE slot
         IN [rb |-> [rb EXCEPT !.head = head],
             ret |-> Some(val), unwritten |-> slot = Uninit]

\* buf.pop_top() (top) or buf.pop_bottom(); a value leaves pending when a pop
\* reads the slot it was pushed into
Pop(top) ==
    /\ ring.constructed
    /\ \E garbage \in RingValues :
           LET r == IF top THEN pop_top(ring.rb, garbage) ELSE pop_bottom(ring.rb, garbage)
           IN /\ ring' = [ring EXCEPT
                             !.rb = r.rb,
                             !.pending = IF r.ret.some /\ ~r.unwritten
                                         THEN SelectSeq(@, LAMBDA v : v # r.ret.val)
                                         ELSE @]
              /\ last' = [op |-> IF top THEN "pop_top" ELSE "pop_bottom", ret |-> r.ret,
                          newest |-> IF ring.pending = << >> THEN None
                                     ELSE Some(ring.pending[Len(ring.pending)]),
                          unwritten |-> r.unwritten, before |-> ring.rb]
    /\ UNCHANGED <<ARENA_IDX, heap, mem, pc, arenas, refs, clears, state, hist, TREE_IDX, trees, pipeline>>

\* pushes and pop_top calls on a buffer of any initial capacity
NextTop ==
    \/ \E capacity \in 1..MaxCapacity : RingNew(capacity)
    \/ Push
    \/ Pop(TRUE)

SpecTop == Init /\ [][NextTop]_vars

\* pushes and pops at both ends
NextPops ==
    \/ \E capacity \in 1..MaxCapacity : RingNew(capacity)
    \/ Push
    \/ \E top \in BOOLEAN : Pop(top)

SpecPops == Init /\ [][NextPops]_vars

----------------------------------------------------------------------------
(* The texture queue of a QuadPipeline
   (unison-backend-wgpu/src/quad_pipeline.rs) *)

\* the largest number of different textures drawn, and the largest number of
\* quads the vertex buffer of a pipeline holds (VC / 4)
MaxTextures == 13
MaxQuadCapacity == 2

\* QuadPipeline::new with room for `quads` quads in its buffers
QuadPipeline_new(quads) ==
    [constructed |-> TRUE, capacity |-> quads, queued |-> 0, clear_queued |-> FALSE,
     texture_queue |-> << >>, panic |-> FALSE]

\* create_texture_bind_group: views[i + 1] and samplers[i + 1] are written
\* for every texture i of the queue, and an index beyond the arrays panics
create_texture_bind_group(texture_queue) ==
    [panic |-> \E i \in 0..(Len(texture_queue) - 1) : i + 1 >= TEXTURE_QUEUE_SIZE]

\* QuadPipeline::flush
flush(p) ==
    LET taken == [p EXCEPT !.clear_queued = FALSE]
    IN IF p.queued = 0 /\ ~p.clear_queued THEN taken
       ELSE IF Len(p.texture_queue) > 0 /\ create_texture_bind_group(p.texture_queue).panic
       THEN [taken EXCEPT !.panic = TRUE]
       ELSE [taken EXCEPT !.queued = 0]

\* IndexSet::insert_full: the index of the value, inserted at the end when
\* it is new
insert_full(set, val) ==
    IF \E i \in 1..Len(set) : set[i] = val
    THEN [set |-> set, index |-> (CHOOSE i \in 1..Len(set) : set[i] = val) - 1]
    ELSE [set |-> Append(set, val), index |-> Len(set)]

\* QuadPipeline::queue_texture
queue_texture(p, tex) ==
    LET flushed == IF Len(p.texture_queue) = TEXTURE_QUEUE_SIZE THEN flush(p) ELSE p
        inserted == insert_full(flushed.texture_queue, tex)
    IN IF flushed.panic THEN [p |-> flushed, ret |-> None]
       ELSE [p |-> [flushed EXCEPT !.texture_queue = inserted.set],
             ret |-> Some(inserted.index + 1)]

\* QuadPipeline::queue_geometry for the vertices of one quad
queue_geometry(p) ==
    LET flushed == IF p.queued + 1 > p.capacity THEN flush(p) ELSE p
    IN IF flushed.panic THEN flushed ELSE [flushed EXCEPT !.queued = @ + 1]

\* QuadPipeline::queue_quad with tex: Option<TextureId>; tex_id is what the
\* vertices of the quad carry
queue_quad(p, tex) ==
    LET queued == IF tex.some THEN queue_texture(p, tex.val) ELSE [p |-> p, ret |-> Some(0)]
    IN IF queued.p.panic THEN [p |-> queued.p, tex_id |-> None]
       ELSE [p |-> queue_geometry(queued.p), tex_id |-> queued.ret]

\* the pipeline of a new surface
PipelineNew(quads) ==
    /\ ~pipeline.constructed
    /\ pipeline' = QuadPipeline_new(quads)
    /\ last' = [op |-> "pipeline_new"]
    /\ UNCHANGED <<ARENA_IDX, heap, mem, pc, arenas, refs, clears, state, hist, TREE_IDX, trees, ring>>

\* the textures a quad is drawn with: none, one drawn before, or the next
\* new one (the k-th different texture is named k)
TextureChoices ==
    {None} \cup {Some(t) : t \in 1..Len(pipeline.texture_queue)}
           \cup {Some(Len(pipeline.texture_queue) + 1)}

\* View::fill and View::draw_rect: pipeline.queue_quad(..., tex, ...)
QueueQuad(tex) ==
    /\ pipeline.constructed /\ ~pipeline.panic
    /\ tex.some => tex.val <= MaxTextures
    /\ pipeline' = queue_quad(pipeline, tex).p
    /\ last' = [op |-> "queue_quad", tex |-> tex, tex_id |-> queue_quad(pipeline, tex).tex_id]
    /\ UNCHANGED <<ARENA_IDX, heap, mem, pc, arenas, refs, clears, state, hist, TREE_IDX, trees, ring>>

\* View::submit: pipeline.flush(...)
Flush ==
    /\ pipeline.constructed /\ ~pipeline.panic
    /\ pipeline' = flush(pipeline)
    /\ last' = [op |-> "flush"]
    /\ UNCHANGED <<ARENA_IDX, heap, mem, pc, arenas, refs, clears, state, hist, TREE_IDX, trees, ring>>

\* WgpuView::new: pipeline.set_clear(color)
SetClear ==
    /\ pipeline.constructed /\ ~pipeline.panic
    /\ pipeline' = [pipeline EXCEPT !.clear_queued = TRUE]
    /\ last' = [op |-> "set_clear"]
    /\ UNCHANGED <<ARENA_IDX, heap, mem, pc, arenas, refs, clears, state, hist, TREE_IDX, trees, ring>>

NextTextures ==
    \/ \E quads \in 1..MaxQuadCapacity : PipelineNew(quads)
    \/ pipeline.constructed /\ \E tex \in TextureChoices : QueueQuad(tex)
    \/ Flush
    \/ SetClear

SpecTextures == Init /\ [][NextTextures]_vars

----------------------------------------------------------------------------
(* Claims about the arena *)

\* the handles arena s issued since its last clear(), oldest first
RunOf(s, e) == SelectSeq(refs, LAMBDA h : h.slot = s /\ h.epoch = e)
CurrentRun(s) == RunOf(s, clears[s])

\* the stored value, as get returns it
Stored(h) == Some(Bytes(h.val, h.ref.T))

OnlySmallValues(s) ==
    \A k \in 1..Len(CurrentRun(s)) : ~IsOversized(arenas[s], CurrentRun(s)[k].ref.T)

\* C1: while every value allocated since the last clear() is smaller than a
\* block, get on every handle issued since then returns the value stored
\* through it, also after the allocations moved on to further blocks.
C1_HandlesKeepTheirValue ==
    \A s \in Slots :
        (pc[s] = "live" /\ OnlySmallValues(s)) =>
            \A k \in 1..Len(CurrentRun(s)) :
                get(arenas[s], mem, CurrentRun(s)[k].ref) = Stored(CurrentRun(s)[k])

\* C2: get / get_mut on an arena with a handle another arena issued is None,
\* also when that other arena is gone.  The arena and the handle are in the
\* hands of one thread.
C2_ForeignHandleIsRejected ==
    \A s \in Slots : \A k \in 1..Len(refs) :
        (pc[s] = "live" /\ refs[k].slot # s /\ Thread(refs[k].slot) = Thread(s)) =>
            get(arenas[s], mem, refs[k].ref) = None

\* a thread holds a handle of an arena it dropped and a second arena, built
\* afterwards where the first one was, while another thread built one too
C2_Witness ==
    \E s \in Slots : \E k \in 1..Len(refs) : \E t \in Slots :
        /\ pc[s] = "live" /\ refs[k].slot # s /\ Thread(refs[k].slot) = Thread(s)
        /\ pc[refs[k].slot] = "dropped"
        /\ cur_block_ptr(arenas[s]) = refs[k].ref.ptr
        /\ Thread(t) # Thread(s) /\ pc[t] = "live"

\* C3: after clear(), get / get_mut is None for every handle issued before it.
C3_ClearedHandleIsRejected ==
    \A s \in Slots : \A k \in 1..Len(refs) :
        (pc[s] = "live" /\ refs[k].slot = s /\ refs[k].epoch < clears[s]) =>
            get(arenas[s], mem, refs[k].ref) = None

\* the first k allocations of two runs store values of the same types
SamePrefix(r1, r2, k) == \A m \in 1..k : r1[m].ref.T = r2[m].ref.T

\* C4: the same sequence of allocations, run again after clear(), leaves the
\* same cursor after every step and places every value at the same offset
\* from the start of its block.
C4_ClearReplaysTheCursor ==
    \A s \in Slots : \A e1 \in 0..clears[s] : \A e2 \in 0..clears[s] :
        e1 < e2 =>
            LET r1 == RunOf(s, e1)
                r2 == RunOf(s, e2)
            IN \A k \in 1..Len(r2) :
                (k <= Len(r1) /\ SamePrefix(r1, r2, k)) =>
                    /\ r1[k].cursor = r2[k].cursor
                    /\ r1[k].rel = r2[k].rel

\* C5: an oversized alloc leaves the block under the cursor and the offset
\* within it as they were before the call.
C5_OversizedKeepsTheCursor ==
    (last.op = "alloc" /\ pc[last.slot] = "live"
        /\ IsOversized(arenas[last.slot], last.T)) =>
        /\ cur_block_ptr(arenas[last.slot]) = last.before.block
        /\ arenas[last.slot].offset = last.before.offset

\* the arena instances a constructor has returned so far
Created == {s \in Slots : pc[s] \in {"live", "dropped"}}

\* C6: no two arena instances ever created carry the same identity.
C6_IdentitiesAreUnique ==
    \A s \in Created : \A t \in Created :
        s # t => arenas[s].arena_id # arenas[t].arena_id

----------------------------------------------------------------------------
(* Claims about the State and its redraw flag, under SpecState *)

\* C7: State::set(r, v) on a valid handle in the watched set stores v, and the
\* redraw flag is true afterwards if v differs from the value stored before;
\* if v equals it, the flag has the value it had before the call.
C7_SetNotifiesWatched ==
    (last.op = "set" /\ last.result.some /\ last.watched) =>
        /\ get(state.arena, mem, last.ref) = Some(last.new)
        /\ state.request_redraw = (last.changed \/ last.flag_before)

\* a watched handle was set to a different value while the flag was down
C7_Witness ==
    /\ last.op = "set" /\ last.result.some /\ last.watched
    /\ last.changed /\ ~last.flag_before /\ state.request_redraw

\* C8: State::set and State::mutate_ref on a valid handle that is not in the
\* watched set leave the State, its redraw flag included, as it was, whatever
\* the old and new values are; only the bytes of the value change.
C8_UnwatchedChangeIsSilent ==
    [][(/\ last'.op \in {"set", "mutate_ref"}
        /\ last'.result.some
        /\ ~last'.watched)
       => /\ state' = state
          /\ \A x \in (DOMAIN mem') \ Range(last'.ref.ptr, last'.ref.T.size) :
                x \in DOMAIN mem /\ mem'[x] = mem[x]]_vars

\* mutate_ref changed the value of an unwatched handle and the flag stayed down
C8_Witness ==
    /\ last.op = "mutate_ref" /\ last.result.some /\ ~last.watched
    /\ last.changed /\ ~last.flag_before /\ ~state.request_redraw
    /\ state.redraw_refs # {}

\* C9: take_redraw_request returns the redraw flag and leaves it false; a
\* take that follows another one with no change of a watched handle in
\* between returns false.
C9_TakeDeliversOnce ==
    last.op = "take" =>
        /\ ~state.request_redraw
        /\ last.result = last.flag_before
        /\ last.second => ~last.result

\* a request was raised and taken
C9_Witness ==
    /\ last.op = "take" /\ last.result /\ ~state.request_redraw

\* C10: once the redraw flag is true, every operation other than
\* take_redraw_request leaves it true.
C10_FlagStaysUntilTaken ==
    [][(state.request_redraw /\ last'.op # "take") => state'.request_redraw]_vars

\* the State was cleared while a redraw was requested, and it still is
C10_Witness ==
    /\ last.op = "clear" /\ last.flag_before /\ state.request_redraw


----------------------------------------------------------------------------
(* Claims about foreign handles, under SpecForeign *)

\* C11: State::set and State::mutate_ref with a handle whose arena identity
\* is not the one of the State's arena return None and leave every stored
\* value, the watched set and the redraw flag as they were; the closure of
\* mutate_ref is not run.
C11_ForeignHandleChangesNothing ==
    [][(/\ last'.op \in {"set", "mutate_ref"}
        /\ last'.ref.arena_id # state.arena.arena_id)
       => /\ last'.result = None
          /\ mem' = mem
          /\ state' = state
          /\ last'.op = "mutate_ref" => ~last'.ran]_vars

\* mutate_ref was called with a closure that changes the value and a watched
\* handle of a dropped arena that points into the block of the State
C11_Witness ==
    /\ last.op = "mutate_ref"
    /\ last.ref.arena_id # state.arena.arena_id
    /\ pc[1] = "dropped"
    /\ last.ref.ptr = state.window_size.ptr
    /\ last.watched
    /\ last.result = None

----------------------------------------------------------------------------
(* Claims about lazy values, under SpecBind *)

\* the handles a tree reads
RECURSIVE HandlesOf(_)
HandlesOf(t) ==
    IF t.kind = "ref" THEN {t.ref}
    ELSE IF t.kind = "tuple" THEN UNION {HandlesOf(t.items[k]) : k \in 1..Len(t.items)}
    ELSE HandlesOf(t.inputs)

\* the handle was issued by the arena of the State
IssuedByState(r) == \E k \in 1..Len(refs) : refs[k].ref = r /\ refs[k].slot = StateSlot

AllValid(val) ==
    val.kind = "lazy" => \A r \in HandlesOf(val.tree) : IssuedByState(r)

\* what a tree stands for: a handle for the value stored, a tuple for the
\* tuple of what its items stand for, a binding for its function applied to
\* what its inputs stand for
RECURSIVE Denote(_, _, _)
Denote(t, m, path) ==
    IF t.kind = "ref" THEN Read(m, t.ref.ptr, t.ref.T)
    ELSE IF t.kind = "tuple"
    THEN [k \in 1..Len(t.items) |-> Denote(t.items[k], m, Append(path, k))]
    ELSE Apply(path, Denote(t.inputs, m, Append(path, 0)))

DenoteValue(val, m) ==
    IF val.kind = "const" THEN val.val ELSE Denote(val.tree, m, << >>)

\* the positions of the bindings that enclose a handle not issued by the State
RECURSIVE Tainted(_, _)
Tainted(t, path) ==
    IF t.kind = "ref" THEN {}
    ELSE IF t.kind = "tuple"
    THEN UNION {Tainted(t.items[k], Append(path, k)) : k \in 1..Len(t.items)}
    ELSE Tainted(t.inputs, Append(path, 0))
         \cup (IF \A r \in HandlesOf(t) : IssuedByState(r) THEN {} ELSE {path})

\* C12: the eval of a Value whose handles are all valid for the State is Some
\* of its function applied to the recursively evaluated inputs: a handle gives
\* the value stored, a binding its own result, a constant itself; tuples of
\* every arity from 0.
C12_EvalAppliesTheFunction ==
    (last.op = "eval_value" /\ AllValid(last.value)) =>
        last.result = Some(DenoteValue(last.value, mem))

\* a binding over a binding and a handle was evaluated, as test_bind does
C12_Witness ==
    /\ last.op = "eval_value"
    /\ last.value =
        Lazy(BindNode(TupleNode(<<BindNode(RefNode(state.window_focused)),
                                  RefNode(state.window_focused)>>)))
    /\ last.result.some
    /\ last.applied = {<< >>, <<0, 1>>}

\* C13: when a handle anywhere in the tree of a Value is invalid for the
\* State, eval is None and the function of no binding that encloses the
\* handle has been applied.
C13_InvalidHandlePropagates ==
    (last.op = "eval_value" /\ ~AllValid(last.value)) =>
        /\ last.result = None
        /\ last.applied \cap Tainted(last.value.tree, << >>) = {}

\* the foreign handle sits next to a binding over a valid handle, inside a
\* tuple a binding reads: the inner function ran, the outer one did not
C13_Witness ==
    /\ last.op = "eval_value"
    /\ last.value.kind = "lazy"
    /\ last.value.tree.kind = "bind"
    /\ last.value.tree.inputs.kind = "tuple"
    /\ ~AllValid(last.value)
    /\ last.result = None
    /\ last.applied = {<<0, 1>>}

----------------------------------------------------------------------------
(* Claims about the stack distribution, under SpecStack *)

RECURSIVE SumSeq(_)
SumSeq(s) == IF s = << >> THEN 0 ELSE Head(s) + SumSeq(Tail(s))

\* what the drawn stack was given: weights, spacing, extent
StackWeights == [k \in 1..Len(last.tree.child.items) |->
                    last.tree.child.items[k].layout.flex.val]
StackSpacing == last.tree.layout.stack_spacing.val
StackExtent ==
    last.window_size[AxisOf(last.tree.layout.stack_orientation.val)]

\* the sizes the siblings were allocated, in order: the extents of the
\* set_viewport_* calls of the pass
Allocated ==
    LET calls == SelectSeq(last.view.log,
                           LAMBDA c : c.call \in {"set_viewport_horizontal",
                                                  "set_viewport_vertical"})
    IN [k \in 1..Len(calls) |-> calls[k].extent]

\* C14: in the stack distribution over n siblings with spacing s and extent
\* E every sibling is allocated a size and the sizes plus (n-1)*s add up to
\* exactly E, whatever the weights, the spacing and the extent
C14_SizesAddUpToExtent ==
    last.op = "draw_tree" =>
        /\ Len(Allocated) = Len(StackWeights)
        /\ \A k \in 1..Len(Allocated) : Allocated[k] >= 0 /\ Allocated[k] <= StackExtent
        /\ SumSeq(Allocated) + (Len(StackWeights) - 1) * StackSpacing = StackExtent

\* the example of the specification: extent 100, weights {1,1,2}, spacing 10
\* gives 20, 20, 40
C14_Example ==
    /\ last.op = "draw_tree"
    /\ StackExtent = 100 /\ StackSpacing = 10 /\ StackWeights = <<1, 1, 2>>
    /\ ~last.view.panic
    /\ Allocated = <<20, 20, 40>>

\* the number nearest to num / den, for num >= 0 and den > 0
RoundNearest(num, den) == (2 * num + den) \div (2 * den)

\* C15: every sibling except the last is allocated round(per_unit_size *
\* weight), rounded to the nearest integer, where per_unit_size = (extent -
\* (n-1)*spacing) / total flex weight
C15_SiblingsGetRoundedShare ==
    LET n == Len(StackWeights)
        usable == StackExtent - (n - 1) * StackSpacing
        total == SumSeq(StackWeights)
    IN (last.op = "draw_tree" /\ usable >= 0 /\ total > 0) =>
           /\ Len(Allocated) = n
           /\ \A k \in 1..(n - 1) :
                  Allocated[k] = RoundNearest(usable * StackWeights[k], total)

----------------------------------------------------------------------------
(* Claims about the identity of a ComponentTree, under SpecTrees *)

TreesCreated == {s \in Slots : trees[s].pc \in {"live", "dropped"}}

\* a ref taken from one tree is turned away by every other tree
RefOfAnotherTreeIsRejected ==
    last.op = "get_event_handler" =>
        /\ last.result.some <=> last.handler.tree_idx = trees[last.tree].tree_idx
        /\ last.from # last.tree => last.result = None

\* C16: get_event_handler returns the handler only when the identity in the
\* ref equals the tree's; any two ComponentTree instances built in the
\* process have distinct identities, so a ref taken from one tree yields None
\* on every other tree, whatever address it carries
C16_TreeIdentityGuardsDispatch ==
    /\ \A s \in TreesCreated : \A t \in TreesCreated :
           s # t => trees[s].tree_idx # trees[t].tree_idx
    /\ RefOfAnotherTreeIsRejected

----------------------------------------------------------------------------
(* Claims about a draw pass, under SpecDraw *)

\* the value of a field of the layout of the container at p of the drawn tree
FieldAt(p, field) == Layout_get(NodeAt(last.tree, p).layout[field], state, mem)

\* where in the log the component at p was drawn
DrawnAt(p) ==
    {i \in 1..Len(last.view.log) : last.view.log[i] = [call |-> "draw", component |-> p]}

SetViewportCall(orient) ==
    IF orient = Horizontal THEN "set_viewport_horizontal" ELSE "set_viewport_vertical"

\* the container at p, drawn at i, was placed by its parent: pushed, then
\* given its viewport along the orientation of the parent's own layout, next
\* to its left sibling at the distance of the parent's own spacing
PlacedByParent(p, i) ==
    LET log == last.view.log
        q == SubSeq(p, 1, Len(p) - 1)
        k == p[Len(p)]
        prev == log[(CHOOSE j \in DrawnAt(Append(q, k - 1)) : TRUE) - 2]
    IN /\ i > 3
       /\ log[i - 3].call = "push"
       /\ log[i - 2].call = SetViewportCall(FieldAt(q, "stack_orientation").val)
       /\ log[i - 2].offset =
              IF k = 1 THEN 0
              ELSE wrapping_add(prev.offset,
                                wrapping_add(prev.extent, FieldAt(q, "stack_spacing").val))

\* C17: ComponentContainer::draw applies its own margin, draws its component,
\* applies its own padding, then draws its child with its own layout as the
\* parent layout (the siblings of a tuple are stacked along the orientation
\* and at the spacing of the layout of the container that holds the tuple);
\* the child () draws nothing
C17_DrawOrder ==
    last.op = "draw_tree" =>
        \A p \in Paths(last.tree) :
            LET log == last.view.log
                node == NodeAt(last.tree, p)
            IN /\ Cardinality(DrawnAt(p)) <= 1
               /\ ~last.view.panic => Cardinality(DrawnAt(p)) = 1
               /\ \A i \in DrawnAt(p) :
                      /\ i > 1
                      /\ log[i - 1] = [call |-> "apply_bounds",
                                       bounds |-> FieldAt(p, "margin").val]
                      /\ p # << >> => PlacedByParent(p, i)
                      /\ ~last.view.panic => i < Len(log)
                      /\ i < Len(log) =>
                             log[i + 1] = [call |-> "apply_bounds",
                                           bounds |-> FieldAt(p, "padding").val]
                      /\ (~last.view.panic /\ node.child.kind = "tuple") => i + 2 <= Len(log)
                      /\ i + 2 <= Len(log) =>
                             log[i + 2].call = IF node.child.kind = "unit"
                                               THEN "restore" ELSE "push"

\* a pass that completed over a tree in which a container below the root
\* holds a tuple, its orientation being the other one than the root's
C17_Witness ==
    /\ last.op = "draw_tree"
    /\ ~last.view.panic
    /\ \E p \in Paths(last.tree) :
           /\ p # << >>
           /\ NodeAt(last.tree, p).child.kind = "tuple"
           /\ FieldAt(p, "stack_orientation").val # FieldAt(<< >>, "stack_orientation").val
    /\ \E p \in Paths(last.tree) : Len(p) = 1 /\ p[1] = 2

\* the fields of the layout of the container at p that a draw pass reads:
\* its margin and padding, its flex weight if it sits in a tuple, its stack
\* orientation and spacing if it holds one
FieldsRead(p) ==
    {"margin", "padding"}
        \cup (IF p # << >> THEN {"flex"} ELSE {})
        \cup (IF NodeAt(last.tree, p).child.kind = "tuple"
              THEN {"stack_orientation", "stack_spacing"} ELSE {})

\* some field the pass reads evaluates to None
SomeFieldFails ==
    \E p \in Paths(last.tree) : \E field \in FieldsRead(p) : ~FieldAt(p, field).some

\* C20: when the evaluation of a layout field (margin, padding, flex weight,
\* stack orientation, stack spacing) returns None during a draw pass, the
\* draw pass completes
C20_FailedFieldLetsThePassComplete ==
    (last.op = "draw_tree" /\ SomeFieldFails) => ~last.view.panic

----------------------------------------------------------------------------
(* Claims about the addresses Arena::alloc returns, under Spec *)

\* C18: every handle returned by Arena::alloc::<T> points to an address that
\* is a multiple of T's alignment, whatever was allocated before and whatever
\* the base address of the block
C18_HandlesAreAligned ==
    \A k \in 1..Len(refs) : refs[k].ref.ptr % refs[k].ref.T.align = 0

\* handles of two alignments were issued, one of them from the bump path of
\* a block whose base is not a multiple of its alignment, after another value
C18_Witness ==
    /\ \E j, k \in 1..Len(refs) : refs[j].ref.T.align # refs[k].ref.T.align
    /\ \E k \in 1..Len(refs) :
           /\ (refs[k].ref.ptr - refs[k].rel) % refs[k].ref.T.align # 0
           /\ refs[k].rel > 0

----------------------------------------------------------------------------
(* Claims about the RingBuffer, under SpecRing *)

\* C19: for any initial capacity of at least 1 and any sequence of push and
\* pop_bottom calls, each pop_bottom returns the oldest pushed value that has
\* not been popped yet (None when there is none), read from a slot that was
\* written: no value is lost, duplicated or replaced by an unwritten slot,
\* growth of a full buffer included.
C19_PopBottomIsFifo ==
    last.op = "pop_bottom" => /\ last.ret = last.oldest
                              /\ ~last.unwritten

----------------------------------------------------------------------------
(* Claims about the placement of values in an arena, under Spec *)

\* C21: a handle to an oversized value (size at least BLOCK_SIZE) keeps
\* returning the stored value across the later normal and oversized allocs
\* made before the next clear(), for any number of pre-allocated blocks and
\* also when the oversized alloc follows a clear(): no later alloc is placed
\* inside its dedicated block.
C21_OversizedValueStays ==
    \A s \in Slots :
        pc[s] = "live" =>
            \A k \in 1..Len(CurrentRun(s)) :
                IsOversized(arenas[s], CurrentRun(s)[k].ref.T) =>
                    get(arenas[s], mem, CurrentRun(s)[k].ref) = Stored(CurrentRun(s)[k])

\* the bytes a handle covers
BytesOf(h) == Range(h.ref.ptr, h.ref.T.size)

\* C22: the byte ranges of any two values allocated in an arena since its
\* last clear() (or since creation) never overlap, whatever the sizes and
\* alignments of the values allocated.
C22_LiveValuesAreDisjoint ==
    \A s \in Slots :
        \A j \in 1..Len(CurrentRun(s)) : \A k \in 1..Len(CurrentRun(s)) :
            j # k => BytesOf(CurrentRun(s)[j]) \cap BytesOf(CurrentRun(s)[k]) = {}

\* C23: every value smaller than BLOCK_SIZE lies entirely inside the block it
\* was placed in, also at the start of a freshly selected block whose base
\* needs alignment padding, and Arena.offset never exceeds BLOCK_SIZE.
C23_SmallValuesStayInTheirBlock ==
    \A s \in Slots :
        pc[s] = "live" =>
            /\ arenas[s].offset <= arenas[s].block_size
            /\ \A k \in 1..Len(refs) :
                   (refs[k].slot = s /\ ~IsOversized(arenas[s], refs[k].ref.T)) =>
                       refs[k].rel + refs[k].ref.T.size <= arenas[s].block_size

----------------------------------------------------------------------------
(* Claims about a State across clear(), under SpecClear *)

\* the positions in refs of the window handles and of those State::alloc returned
WindowHandles == 1..Len(WindowValues)
UserHandles == (Len(WindowValues) + 1)..Len(refs)

\* C24: the five window handles of a State never share storage with a handle
\* State::alloc returned, after any sequence of State::alloc and State::clear:
\* a set through a user-allocated handle leaves the values read through
\* window_size, window_pos, window_focused, window_maximized and
\* window_minimized as they were, and a set through a window handle leaves
\* the values read through the user-allocated handles as they were.
C24_WindowHandlesKeepTheirStorage ==
    /\ \A w \in WindowHandles : \A u \in UserHandles :
           BytesOf(refs[w]) \cap BytesOf(refs[u]) = {}
    /\ last.op = "set_of" =>
           \A w \in WindowHandles : \A u \in UserHandles :
               /\ last.issued = u => ValuesNow(mem)[w] = last.before[w]
               /\ last.issued = w => ValuesNow(mem)[u] = last.before[u]

\* C25: a handle makes the redraw flag true only if redraw_on_change was
\* called with that very handle after it was allocated: a handle allocated
\* after State::clear and never registered does not raise the flag when its
\* value changes, even at the address of a handle registered before the clear.
C25_OnlyRegisteredHandlesNotify ==
    (last.op = "set_of" /\ ~last.flag_before /\ state.request_redraw) =>
        last.issued \in hist.registered

----------------------------------------------------------------------------
(* Claims about mutate_ref and set, under SpecForeign *)

\* C26: State::mutate_ref(r, op) has the effect of State::set(r, v) with v the
\* value op produces from the current one, on the stored values, the State
\* (its redraw flag included) and the result: the flag becomes true iff r is
\* watched and the value after op differs from the value before it.
C26_MutateRefIsSet ==
    [][last'.op = "mutate_ref" =>
        LET res == State_set(state, mem, last'.ref, last'.new)
        IN /\ state' = res.state
           /\ mem' = res.mem
           /\ last'.result = res.result
           /\ (~state.request_redraw =>
                  (state'.request_redraw <=> (last'.watched /\ last'.changed
                                              /\ last'.result.some)))]_vars

\* mutate_ref changed the value of a watched handle and raised the flag
C26_Witness ==
    /\ last.op = "mutate_ref" /\ last.watched /\ last.changed
    /\ ~last.flag_before /\ state.request_redraw
    /\ get(state.arena, mem, last.ref) = Some(last.new)

----------------------------------------------------------------------------
(* Claims about repeated evaluation, under SpecMemo *)

\* C27: evaluation is memo-free.  An eval changes no stored value, watched
\* entry or flag; the eval of a Value over valid handles gives what the
\* values stored now stand for, so the eval that follows a set or mutate_ref
\* uses the new value, directly or through nested bindings; and an eval that
\* follows an eval of the same Value with no mutation in between returns the
\* same result.
C27_EvalIsMemoFree ==
    [][last'.op = "eval_value" =>
        /\ state' = state
        /\ mem' = mem
        /\ AllValid(last'.value) =>
               last'.result = Some(DenoteValue(last'.value, mem'))
        /\ (last.op = "eval_value" /\ last.value = last'.value) =>
               last'.result = last.result]_vars

\* a binding over a binding over window_focused was evaluated after the
\* handle was set to false, and gave the functions applied to false
C27_Witness ==
    /\ last.op = "eval_value"
    /\ last.value = Lazy(BindNode(BindNode(RefNode(state.window_focused))))
    /\ Read(mem, state.window_focused.ptr, Bool) = Bytes(0, Bool)
    /\ last.result = Some(Apply(<< >>, Apply(<<0>>, Bytes(0, Bool))))

----------------------------------------------------------------------------
(* Claims about the placement of the siblings of a stack, under SpecStack *)

\* the axis offsets the siblings were placed at, in order: the offsets of the
\* set_viewport_* calls of the pass
Offsets ==
    LET calls == SelectSeq(last.view.log,
                           LAMBDA c : c.call \in {"set_viewport_horizontal",
                                                  "set_viewport_vertical"})
    IN [k \in 1..Len(calls) |-> calls[k].offset]

\* a + b = c as numbers, for a, b, c of type u32
IsSum(a, b, c) == ~add_overflows(a, b) /\ c = wrapping_add(a, b)

\* C28: sibling k (from 0, in declaration order) is placed at the axis offset
\* that is the sum of the sizes allocated to the siblings before it plus k
\* times the spacing: the first one at 0, every other one at the end of the
\* one before it plus one spacing, so that the regions are in declaration
\* order, do not overlap and lie one spacing apart.
C28_SiblingsFollowEachOther ==
    last.op = "draw_tree" =>
        \A k \in 1..Len(Offsets) :
            IF k = 1 THEN Offsets[k] = 0
            ELSE /\ ~add_overflows(Offsets[k - 1], Allocated[k - 1])
                 /\ IsSum(wrapping_add(Offsets[k - 1], Allocated[k - 1]), StackSpacing,
                          Offsets[k])


\* C29: the stack distribution never wraps or underflows its unsigned
\* arithmetic: for every extent, spacing and weights (total spacing above the
\* extent and all weights zero included) the pass runs to its end, every
\* sibling is placed, and its offset plus its size is at most the extent of
\* the parent viewport along the axis.
C29_DistributionStaysInsideTheExtent ==
    last.op = "draw_tree" =>
        /\ ~last.view.panic
        /\ Len(Offsets) = Len(StackWeights)
        /\ \A k \in 1..Len(Offsets) :
               /\ Offsets[k] >= 0 /\ Allocated[k] >= 0
               /\ ~add_overflows(Offsets[k], Allocated[k])
               /\ Offsets[k] + Allocated[k] <= StackExtent

----------------------------------------------------------------------------
(* Claims about the view states of a draw pass, under SpecDraw *)

\* the view after the call c of the log is made on the view v
Replayed(v, c) ==
    CASE c.call = "push" -> View_push(v)
      [] c.call = "restore" -> View_restore(v)
      [] c.call = "set_viewport_horizontal" ->
             set_viewport(v, 1, c.offset, c.extent, last.checks)
      [] c.call = "set_viewport_vertical" ->
             set_viewport(v, 2, c.offset, c.extent, last.checks)
      [] c.call = "apply_bounds" -> apply_bounds(v, c.bounds, last.checks)
      [] c.call = "draw" -> Component_draw(v, c.component)

\* the stacks of view states before the pass and after each of its first j
\* calls, the calls of the log made again one by one on a new view of the
\* window
RECURSIVE StatesUpTo(_)
StatesUpTo(j) ==
    IF j = 0 THEN <<WgpuView_new(last.window_size).state>>
    ELSE LET earlier == StatesUpTo(j - 1)
             v == [WgpuView_new(last.window_size) EXCEPT !.state = earlier[j]]
         IN Append(earlier, Replayed(v, last.view.log[j]).state)

\* the stack of view states after the first j calls of the pass
StatesAfter(j) == StatesUpTo(j)[j + 1]

\* the call of the log with which the container at p was pushed
PushedAt(p) == (CHOOSE i \in DrawnAt(p) : TRUE) - 3

\* C30: each sibling of a tuple is drawn between a push and the matching
\* restore: when the draw of a tuple returns, the stack of view states (its
\* depth and the current viewport) is the one the draw was called with, and
\* every sibling is pushed from that very stack, so that no sibling sees the
\* viewport, margin or padding of the one before it or of its descendants
C30_SiblingsAreFramed ==
    (last.op = "draw_tree" /\ ~last.view.panic) =>
        LET log == last.view.log
            all == StatesUpTo(Len(log))
            views == [j \in 0..Len(log) |-> all[j + 1]]
        IN /\ views[Len(log)] = last.view.state
           /\ \A p \in Paths(last.tree) :
                  NodeAt(last.tree, p).child.kind = "tuple" =>
                      LET n == Len(NodeAt(last.tree, p).child.items)
                          begin == (CHOOSE i \in DrawnAt(p) : TRUE) + 1
                          before == views[begin]
                      IN /\ PushedAt(Append(p, 1)) = begin + 1
                         /\ \A k \in 1..n :
                                LET at == PushedAt(Append(p, k))
                                IN /\ log[at].call = "push"
                                   /\ views[at - 1] = before
                                   /\ \E j \in (at + 1)..Len(log) :
                                          /\ log[j].call = "restore"
                                          /\ views[j] = before
                                          /\ \A i \in at..(j - 1) :
                                                 Len(views[i]) > Len(before)
                                          /\ IF k < n
                                             THEN PushedAt(Append(p, k + 1)) = j + 1
                                             ELSE \/ j = Len(log)
                                                  \/ log[j + 1].call = "restore"

\* a pass that completed over a tree whose root holds two siblings, the
\* first of them with a margin, a padding and a tuple of its own
C30_Witness ==
    /\ last.op = "draw_tree"
    /\ ~last.view.panic
    /\ <<2>> \in Paths(last.tree)
    /\ <<1, 1>> \in Paths(last.tree)
    /\ FieldAt(<<1>>, "margin").val # Bounds_new(0, 0, 0, 0)
    /\ FieldAt(<<1>>, "padding").val # Bounds_new(0, 0, 0, 0)
    /\ StatesAfter(PushedAt(<<2>>) - 2) # StatesAfter(PushedAt(<<2>>) - 1)

----------------------------------------------------------------------------
(* Claims about the state stack of a view, under SpecView *)

\* C31: the stack of saved states of a view is never empty, whatever calls
\* of push, restore, reset_viewport, set_viewport_horizontal,
\* set_viewport_vertical and apply_bounds are made; a restore on a stack of
\* one state leaves exactly one state, the full window region; a restore
\* after a push gives back the viewport that was current before that push
C31_ViewStackIsNeverEmpty ==
    [][/\ Len(last'.view.state) >= 1
       /\ (last'.op = "restore" /\ Len(last.view.state) = 1) =>
              last'.view.state = <<[pos |-> <<0, 0>>, size |-> last.view.window_size]>>
       /\ (last'.op = "restore" /\ last.saved # << >>) =>
              /\ Len(last'.view.state) = Len(last.view.state) - 1
              /\ get_state(last'.view) = last.saved[Len(last.saved)]]_vars

\* a restore that gives back a viewport other than the window, after the
\* viewport was changed between the push and the restore
C31_Witness ==
    /\ last.op = "restore"
    /\ Len(last.before) = 2
    /\ last.before[2] # last.before[1]
    /\ get_state(last.view) = last.before[1]
    /\ get_state(last.view) # WgpuViewState_new(last.view.window_size)

----------------------------------------------------------------------------
(* Claims about the construction of a tree of containers, under SpecBuild *)

\* the build and layout calls of the tree of components c at path, parent
\* before children and left sibling before right
RECURSIVE PreOrder(_, _)
RECURSIVE PreOrderOf(_, _, _)
PreOrder(c, path) ==
    <<[call |-> "build", component |-> path], [call |-> "layout", component |-> path]>>
        \o (IF c.child.kind = "unit" THEN << >> ELSE PreOrderOf(c.child.items, path, 1))
PreOrderOf(items, path, k) ==
    IF k > Len(items) THEN << >>
    ELSE PreOrder(items[k], Append(path, k)) \o PreOrderOf(items, path, k + 1)

\* C32: ComponentContainer::new calls the build of its component once, then
\* its layout once, and only then contains the child, the children of a
\* tuple in the order of their declaration: the calls, and with them the
\* allocations and registrations they make in the State, happen in
\* pre-order, and none of them happens again after the construction
C32_BuildThenLayoutInPreOrder ==
    hist.built =>
        LET calls == hist.calls
        IN /\ [k \in 1..Len(calls) |->
                  [call |-> calls[k].call, component |-> calls[k].component]]
                  = PreOrder(hist.tree, << >>)
           /\ \A p \in Paths(hist.tree) : \A call \in {"build", "layout"} :
                  Cardinality({k \in 1..Len(calls) :
                                   calls[k].call = call /\ calls[k].component = p}) = 1
           /\ \A j, k \in 1..Len(calls) : j < k => calls[j].ref.ptr < calls[k].ref.ptr
           /\ Len(refs) = Len(WindowValues) + Len(calls)
           /\ \A k \in 1..Len(calls) : refs[Len(WindowValues) + k].ref = calls[k].ref
           /\ state.redraw_refs =
                  {WatchKey(calls[k].ref) : k \in {j \in 1..Len(calls) : calls[j].call = "layout"}}

\* a tree whose root holds two children, the first with a child of its own,
\* has been built, a handle set and the tree drawn
C32_Witness ==
    /\ hist.built
    /\ last.op = "draw_tree"
    /\ ~last.view.panic
    /\ state.request_redraw
    /\ <<1, 1>> \in Paths(hist.tree)
    /\ <<2>> \in Paths(hist.tree)
    /\ hist.calls[3] = [call |-> "build", component |-> <<1>>, ref |-> refs[8].ref]

----------------------------------------------------------------------------
(* Claims about the window events, under SpecApp *)

\* the handle of the State a window event is about, and the type of its value
EventRef(ev) ==
    CASE ev.kind = "Resized" -> state.window_size
      [] ev.kind = "Moved" -> state.window_pos
      [] ev.kind = "Focused" -> state.window_focused

\* C33: each of the window events resize, move and focus change is forwarded
\* to a setter of the State: when the event has been handled, window_size,
\* window_pos or window_focused holds the value the event carried
C33_WindowEventsReachTheState ==
    (/\ last.op = "window_event"
     /\ last.id = AppWindow
     /\ last.ev.kind \in {"Resized", "Moved", "Focused"}) =>
        get(state.arena, mem, EventRef(last.ev))
            = Some(Bytes(last.ev.val, EventRef(last.ev).T))


\* C34: when the handling of a window event changes the value of a watched
\* handle, a redraw of the window is requested before handle_window_event
\* returns, and the redraw flag of the page is false when it returns; when the
\* flag was false and no watched handle changed, no redraw is requested; an
\* event for a window id the App does not know changes nothing
C34_WatchedChangeRequestsRedraw ==
    last.op = "window_event" =>
        IF last.id = AppWindow
        THEN /\ last.notified => last.requested
             /\ ~state.request_redraw
             /\ (~last.flag_before /\ ~last.notified) => ~last.requested
        ELSE /\ ~last.requested
             /\ state = last.before.state
             /\ mem = last.before.mem
             /\ hist.surface = last.before.surface

\* a focus change of the window, whose handle a layout function registered,
\* made the App request a redraw while the flag was down before
C34_Witness ==
    /\ last.op = "window_event"
    /\ last.id = AppWindow
    /\ last.ev.kind = "Focused"
    /\ last.notified
    /\ ~last.flag_before
    /\ last.requested
    /\ get(state.arena, mem, state.window_focused) = Some(Bytes(last.ev.val, Bool))

----------------------------------------------------------------------------
(* Claims about the EventState, under SpecEvents *)

\* C35: after k calls of State::emit since the State was created, the event
\* buffer holds exactly those k events in the order of their emission, for
\* every k, also at and beyond the initial capacity of the buffer
C35_EventBufferHoldsAllEvents ==
    Contents(state.event_state.event_buffer) = [k \in 1..hist.emits |-> <<0, k>>]

\* C36: get_event_type is stable per name: two calls with the same name and
\* the same payload type return equal EventType values, and calls with
\* different names return different ids
C36_EventTypeIsStablePerName ==
    \A j, k \in 1..Len(hist.asked) :
        LET a == hist.asked[j]
            b == hist.asked[k]
        IN /\ (a.name = b.name /\ a.T = b.T) => a.ret = b.ret
           /\ (a.name # b.name /\ a.ret.some /\ b.ret.some) => a.ret.val.ty # b.ret.val.ty

----------------------------------------------------------------------------
(* Claims about the RingBuffer, under SpecTop and SpecPops *)

\* C37: for any sequence of push and pop_top calls on a RingBuffer of initial
\* capacity at least 1, pop_top returns the value pushed last among those not
\* popped yet, also after a push that grew the buffer
C37_PopTopIsLifo ==
    last.op = "pop_top" => (~last.unwritten /\ last.ret = last.newest)

\* C38: pop_top and pop_bottom on an empty RingBuffer return None and leave
\* head, tail and capacity as they are, and after any sequence of pushes and
\* pops is_empty is true exactly when every value pushed has been popped
C38_EmptyExactlyWhenAllPopped ==
    /\ (last.op \in {"pop_top", "pop_bottom"} /\ is_empty(last.before)) =>
           (last.ret = None /\ ring.rb = last.before)
    /\ ring.constructed => (is_empty(ring.rb) <=> ring.pending = << >>)

----------------------------------------------------------------------------
(* Claims about the texture queue, under SpecTextures *)

\* C39: every index queue_texture returns addresses a slot of the texture
\* and sampler arrays of TEXTURE_QUEUE_SIZE entries (slot 0 being the
\* fallback), and the texture queue never holds more textures than the
\* arrays have slots left, for any sequence of textured quads between and
\* across flushes
C39_TextureIndexIsAValidSlot ==
    /\ (last.op = "queue_quad" /\ last.tex_id.some) =>
           last.tex_id.val \in 0..(TEXTURE_QUEUE_SIZE - 1)
    /\ pipeline.constructed => Len(pipeline.texture_queue) <= TEXTURE_QUEUE_SIZE - 1

============================================================================
